---- MODULE Spec2Model ----
(***************************************************************************)
(* A model of the general-mq connection / queue state machines and of the  *)
(* sylvia-iot-sdk managers that are built on them.                         *)
(*                                                                         *)
(* The broker client libraries (amqplib, mqtt.js) and the Node.js event    *)
(* loop are the environment.  Every operation started on them (a dial, a   *)
(* channel set-up, a subscribe, an unsubscribe, a close, a nextTick or a   *)
(* setTimeout) is a pending item that the environment completes in a       *)
(* later step; raw 'close' events may arrive whenever listeners are        *)
(* attached.  Event emission is synchronous: an action contains the whole  *)
(* cascade connection -> queues -> managers that one emit() runs.          *)
(***************************************************************************)
EXTENDS Integers, Sequences, FiniteSets, TLC

VARIABLES
  conn,   \* the (pooled) connection object
  qs,     \* queue objects, indexed in order of construction
  mgrs,   \* manager objects
  pool,   \* the connection pool entry of the host URI
  msgs,   \* inbound messages handled by the manager message handler
  lsn,    \* the status listeners of the first queue and what they received
  broker, \* the broker: its queues, subscriptions and messages
  call,   \* a call of a function that validates its arguments, and its outcome
  http,   \* the HTTP client, the request it executes and what it did for it
  act     \* label of the step taken last (observation only)

\* The variables that the steps of connections, queues and managers leave
\* alone, and those that the steps of managers leave alone.
calls == <<call, http>>
others == <<broker, calls>>
rest == <<lsn, others>>

vars == <<conn, qs, mgrs, pool, msgs, rest, act>>

\* Their value in the specifications that do not use them.
NoCalls == call = <<>> /\ http = <<>>
NoOthers == broker = <<>> /\ NoCalls
NoRest == lsn = <<>> /\ NoOthers

(***************************************************************************)
(* Bounds of the model.                                                    *)
(***************************************************************************)
MaxDials == 1       \* pending amqplib.connect() calls
MaxTimers == 1      \* pending setTimeout() callbacks of one object
MaxEnds == 1        \* pending channel.close()/unsubscribe() completions of one queue
MaxConnEnds == 2    \* pending close()/end() completions of the connection
MaxTicks == 1       \* pending process.nextTick() callbacks of one object
MaxStale == 1       \* replaced raw clients whose listeners are still bound

Closed == "Closed"
Connecting == "Connecting"
Connected == "Connected"
Closing == "Closing"
Disconnected == "Disconnected"

Status == {Closing, Closed, Connecting, Connected, Disconnected}

Engines == {"amqp", "mqtt"}

Ready == "Ready"
NotReady == "NotReady"

(***************************************************************************)
(* Connection objects.                                                     *)
(*   status : #status                                                      *)
(*   raw    : #conn, "null" or the state of the raw client it refers to    *)
(*            ("connecting": an mqtt client that has not connected yet,    *)
(*             "up": connected, "ending": close()/end() was called on it)  *)
(*   dials  : amqplib.connect() calls whose callback is pending            *)
(*   timers : pending retry timers of #innerConnect                        *)
(*   ends   : pending completions of raw close()/end(); TRUE = the         *)
(*            close() call had a callback                                  *)
(*   stale  : raw clients that #conn no longer refers to but whose         *)
(*            listeners were never removed                                 *)
(*   ticks  : user callbacks scheduled with process.nextTick               *)
(*   owed   : close(cb) calls whose cb has not been invoked yet (ghost)    *)
(*   closeReq, cancelReq : close() was called and connect() was not called *)
(*            since / the same, when a dial or retry was pending (ghost)   *)
(*   newDial: a dial was started since the last close() (ghost)            *)
(*   emitted: the status events emitted in the last step                   *)
(***************************************************************************)
NewConnection(engine) ==
  [ engine |-> engine, status |-> Closed, raw |-> "null", dials |-> 0,
    timers |-> 0, ends |-> <<>>, stale |-> 0, ticks |-> 0, owed |-> 0,
    closeReq |-> FALSE, cancelReq |-> FALSE, newDial |-> FALSE,
    emitted |-> <<>> ]

ConnEmit(c, s) == [c EXCEPT !.emitted = Append(@, s)]

\* AmqpConnection.#innerConnect: starts amqplib.connect(); nothing else changes
\* until the callback runs.
AmqpConnection_innerConnect(c) ==
  [c EXCEPT !.dials = @ + 1, !.newDial = TRUE]

\* MqttConnection.#innerConnect: mqtt.connect() returns the client at once and
\* the listeners are bound to it; a client that #conn referred to before is
\* neither ended nor unbound.
MqttConnection_innerConnect(c) ==
  [c EXCEPT !.raw = "connecting",
            !.stale = IF c.raw = "null" THEN @ ELSE @ + 1,
            !.newDial = TRUE]

Connection_innerConnect(c) ==
  IF c.engine = "amqp" THEN AmqpConnection_innerConnect(c)
  ELSE MqttConnection_innerConnect(c)

\* Mutant: connect() that does not look at the status.
Connection_connect_NoStatusCheck(c) ==
  Connection_innerConnect(ConnEmit([c EXCEPT !.status = Connecting], Connecting))

\* connect(): a no-op unless the status is Closed or Closing.
Connection_connect(c) ==
  IF c.status # Closed /\ c.status # Closing THEN c
  ELSE Connection_innerConnect(ConnEmit([c EXCEPT !.status = Connecting], Connecting))

\* close(callback): with #conn null only the callback is scheduled; otherwise
\* Closing is set and emitted and the raw close()/end() is started.
Connection_close(c, hasCb) ==
  IF c.raw = "null"
  THEN [c EXCEPT !.ticks = IF hasCb THEN @ + 1 ELSE @]
  ELSE [ConnEmit(c, Closing) EXCEPT !.status = Closing, !.raw = "ending",
                                    !.ends = Append(@, hasCb)]

\* The callback of the raw close()/end().
Connection_closeDone(c) ==
  [ConnEmit(c, Closed) EXCEPT !.status = Closed, !.raw = "null",
                              !.ends = Tail(@),
                              !.ticks = IF Head(c.ends) THEN @ + 1 ELSE @]

\* The callback of amqplib.connect().
AmqpConnection_dialDone(c, ok) ==
  IF ~ok
  THEN [c EXCEPT !.dials = @ - 1, !.timers = @ + 1]
  ELSE [ConnEmit(c, Connected) EXCEPT
          !.dials = @ - 1, !.raw = "up", !.status = Connected,
          !.stale = IF c.raw = "null" THEN @ ELSE @ + 1]

\* The retry timer of AmqpConnection.#innerConnect.
AmqpConnection_retry(c) ==
  AmqpConnection_innerConnect([c EXCEPT !.timers = @ - 1])

\* Mutant: #onClose that sets Connecting but does not dial again.
Connection_onClose_NoRedial(c) ==
  LET d == [c EXCEPT !.raw = "null"]
  IN IF d.status # Closing /\ d.status # Closed
     THEN ConnEmit([d EXCEPT !.status = Connecting], Connecting)
     ELSE d

\* #onClose: the listeners of the client #conn refers to are removed and #conn
\* is set to null; unless Closing or Closed the connection re-dials.
Connection_onClose(c) ==
  LET d == [c EXCEPT !.raw = "null"]
  IN IF d.status # Closing /\ d.status # Closed
     THEN Connection_innerConnect(ConnEmit([d EXCEPT !.status = Connecting], Connecting))
     ELSE d

\* MqttConnection.#onConnect
MqttConnection_onConnect(c) ==
  IF c.raw # "null"
  THEN ConnEmit([c EXCEPT !.status = Connected, !.raw = "up"], Connected)
  ELSE c

\* MqttConnection.#onReconnect
MqttConnection_onReconnect(c) ==
  IF c.status # Closing /\ c.status # Closed
  THEN ConnEmit([c EXCEPT !.status = Connecting], Connecting)
  ELSE c

ConnBounded(c) ==
  /\ c.dials <= MaxDials
  /\ c.timers <= MaxTimers
  /\ Len(c.ends) <= MaxConnEnds
  /\ c.stale <= MaxStale
  /\ c.ticks <= MaxTicks

(***************************************************************************)
(* Queue objects.                                                          *)
(*   status  : #status            proc    : #connProcessing                *)
(*   channel : #channel is not null (AMQP)                                 *)
(*   handler : #msgHandler is set                                          *)
(*   pkt     : the connection's packet-handler map holds the queue (MQTT)  *)
(*   timers  : pending retry timers of #innerConnect                       *)
(*   attempts: channel set-ups / subscribes whose callback is pending      *)
(*   live    : the raw connection a pending attempt was started on is      *)
(*             still up                                                    *)
(*   closes  : pending completions of channel.close()/unsubscribe(); TRUE  *)
(*             = the close() call had a callback                           *)
(*   ticks   : close callbacks scheduled with process.nextTick             *)
(*   errs    : those of them that will be passed an error                  *)
(*   connL   : the queue's listener is bound to the connection             *)
(*   mgrL    : the owning manager's listener is bound to the queue         *)
(*   errL    : a listener of the queue's 'error' event is bound            *)
(*   owner   : the owning manager (0: none)                                *)
(*   threw   : the call made in the last step threw                        *)
(*   sendRes : what the sendMsg() call made in the last step did: ""       *)
(*             (no call), "published", "threw", or the error its callback  *)
(*             is given, "NotConnected" or "QueueIsReceiver"               *)
(*   owed    : close(cb) calls whose cb has not been invoked yet (ghost)   *)
(*   closeReq: close() was called and connect() was not called since       *)
(*             (ghost)                                                     *)
(*   emitted : the status events emitted in the last step                  *)
(*   newer   : #channel was stored while a channel.close() was pending     *)
(*             (ghost)                                                     *)
(*   orphan  : a channel that was opened for the queue is neither closed   *)
(*             nor referred to by #channel (ghost)                         *)
(***************************************************************************)
NewQueue(engine, isRecv, owner) ==
  [ engine |-> engine, isRecv |-> isRecv, owner |-> owner, status |-> Closed,
    proc |-> FALSE, channel |-> FALSE, handler |-> FALSE, pkt |-> FALSE,
    timers |-> 0, attempts |-> 0, closes |-> <<>>, ticks |-> 0,
    errs |-> 0, live |-> FALSE, connL |-> TRUE, mgrL |-> FALSE,
    errL |-> FALSE,
    threw |-> FALSE, sendRes |-> "",
    owed |-> 0, closeReq |-> FALSE, emitted |-> <<>>,
    newer |-> FALSE, orphan |-> FALSE ]

QEmit(q, s) == [q EXCEPT !.emitted = Append(@, s)]

\* Mutant: #innerConnect that does not look at #connProcessing.
Queue_innerConnect_NoProcessing(q, c) ==
  IF q.status # Connecting THEN q
  ELSE IF c.status # Connected \/ c.raw = "null"
       THEN [q EXCEPT !.timers = @ + 1]
  ELSE IF q.engine = "mqtt" /\ ~q.isRecv
       THEN QEmit([q EXCEPT !.status = Connected], Connected)
  ELSE [q EXCEPT !.proc = TRUE, !.attempts = @ + 1]

\* #innerConnect of AmqpQueue and MqttQueue up to the first asynchronous call.
\* An MQTT sender is Connected at once; every other queue starts the channel
\* set-up (AMQP) or the subscribe (MQTT receiver).
Queue_innerConnect(q, c) ==
  IF q.status # Connecting \/ q.proc THEN q
  ELSE IF c.status # Connected \/ c.raw = "null"
       THEN [q EXCEPT !.timers = @ + 1]
  ELSE IF q.engine = "mqtt" /\ ~q.isRecv
       THEN QEmit([q EXCEPT !.status = Connected], Connected)
  ELSE [q EXCEPT !.proc = TRUE, !.attempts = @ + 1]

\* Mutant: the final callback sets Connected without storing the channel.
Queue_innerConnectDone_NoChannel(q, ok) ==
  IF ~ok
  THEN IF q.engine = "amqp" /\ ~q.errL
       THEN [q EXCEPT !.proc = FALSE, !.attempts = @ - 1, !.threw = TRUE]
       ELSE [q EXCEPT !.proc = FALSE, !.attempts = @ - 1, !.timers = @ + 1]
  ELSE QEmit([q EXCEPT !.proc = FALSE, !.attempts = @ - 1,
                       !.status = Connected], Connected)

\* The final callback of the channel set-up waterfall (AMQP) or the callback
\* of subscribe (MQTT).  On failure AmqpQueue emits 'error' before it sets the
\* retry timer; emit('error') with no listener bound throws, and then no timer
\* is set.
Queue_innerConnectDone(q, ok) ==
  IF ~ok
  THEN IF q.engine = "amqp" /\ ~q.errL
       THEN [q EXCEPT !.proc = FALSE, !.attempts = @ - 1, !.threw = TRUE]
       ELSE [q EXCEPT !.proc = FALSE, !.attempts = @ - 1, !.timers = @ + 1]
  ELSE QEmit([q EXCEPT !.proc = FALSE, !.attempts = @ - 1,
                       !.channel = (q.engine = "amqp"),
                       !.newer = (q.engine = "amqp" /\ q.closes # <<>>),
                       !.status = Connected], Connected)

\* The retry timer set by #innerConnect, #onConnStatusChanged or #onClose.
Queue_retry(q, c) ==
  Queue_innerConnect([q EXCEPT !.timers = @ - 1], c)

\* Mutant: connect() that does not look for the message handler.
Queue_connect_NoHandlerCheck(q, c) ==
  IF q.status # Closed /\ q.status # Closing THEN q
  ELSE Queue_innerConnect(
         QEmit([q EXCEPT !.status = Connecting,
                         !.pkt = IF q.engine = "mqtt" /\ q.isRecv THEN TRUE ELSE @],
               Connecting), c)

\* connect()
Queue_connect(q, c) ==
  IF q.isRecv /\ ~q.handler THEN [q EXCEPT !.threw = TRUE]
  ELSE IF q.status # Closed /\ q.status # Closing THEN q
  ELSE Queue_innerConnect(
         QEmit([q EXCEPT !.status = Connecting,
                         !.pkt = IF q.engine = "mqtt" /\ q.isRecv THEN TRUE ELSE @],
               Connecting), c)

\* Mutant: sendMsg() that does not look at isRecv.
Queue_sendMsg_NoRecvCheck(q, c) ==
  IF q.status # Connected THEN [q EXCEPT !.sendRes = "NotConnected"]
  ELSE IF (q.engine = "amqp" /\ ~q.channel) \/ (q.engine = "mqtt" /\ c.raw = "null")
  THEN [q EXCEPT !.sendRes = "threw", !.threw = TRUE]
  ELSE [q EXCEPT !.sendRes = "published"]

\* sendMsg(payload, callback) with a Buffer and a function.  The two errors
\* are given to the callback by process.nextTick; otherwise publish() is
\* called on #channel (AMQP) or on the raw connection (MQTT), which throws
\* when that is null.
Queue_sendMsg(q, c) ==
  IF q.status # Connected THEN [q EXCEPT !.sendRes = "NotConnected"]
  ELSE IF q.isRecv THEN [q EXCEPT !.sendRes = "QueueIsReceiver"]
  ELSE IF (q.engine = "amqp" /\ ~q.channel) \/ (q.engine = "mqtt" /\ c.raw = "null")
  THEN [q EXCEPT !.sendRes = "threw", !.threw = TRUE]
  ELSE [q EXCEPT !.sendRes = "published"]

\* MqttQueue.close(callback)
MqttQueue_close(q, c, hasCb) ==
  IF q.status = Closing \/ q.status = Closed \/ c.raw = "null"
  THEN [q EXCEPT !.ticks = IF hasCb THEN @ + 1 ELSE @]
  ELSE [QEmit(q, Closing) EXCEPT !.status = Closing, !.closes = Append(@, hasCb)]

\* AmqpQueue.close(callback).  With #channel null the queue is set to Closed;
\* the return that ends this branch is inside `if (callback)`, so without a
\* callback the code goes on, sets Closing and calls close() on the null
\* channel, which throws.
AmqpQueue_close(q, hasCb) ==
  IF q.status = Closing \/ q.status = Closed
  THEN [q EXCEPT !.ticks = IF hasCb THEN @ + 1 ELSE @]
  ELSE IF ~q.channel
  THEN IF hasCb
       THEN [QEmit(q, Closed) EXCEPT !.status = Closed, !.ticks = @ + 1]
       ELSE [QEmit(QEmit(q, Closed), Closing) EXCEPT !.status = Closing,
                                                    !.threw = TRUE]
  ELSE [QEmit(q, Closing) EXCEPT !.status = Closing, !.closes = Append(@, hasCb)]

Queue_close(q, c, hasCb) ==
  IF q.engine = "amqp" THEN AmqpQueue_close(q, hasCb)
  ELSE MqttQueue_close(q, c, hasCb)

\* The callback of channel.close() (AMQP) or unsubscribe() (MQTT), which is
\* passed err.
Queue_closeDone(q, err) ==
  [QEmit(q, Closed) EXCEPT
     !.status = Closed,
     !.channel = FALSE,
     !.newer = FALSE,
     !.orphan = @ \/ (q.channel /\ q.newer),
     !.pkt = IF q.engine = "mqtt" /\ q.isRecv THEN FALSE ELSE @,
     !.closes = Tail(@),
     !.ticks = IF Head(q.closes) THEN @ + 1 ELSE @,
     !.errs = IF Head(q.closes) /\ err THEN @ + 1 ELSE @]

\* The close callback scheduled with process.nextTick runs.
Queue_closeCallback(q) ==
  [q EXCEPT !.ticks = @ - 1, !.owed = @ - 1,
            !.errs = IF @ > 0 THEN @ - 1 ELSE @]

\* Mutant: #onClose that sets Connecting without scheduling #innerConnect.
Queue_onClose_NoTimer(q) ==
  LET r == [q EXCEPT !.channel = FALSE, !.newer = FALSE]
  IN IF r.status = Closing \/ r.status = Closed \/ r.status = Connecting
     THEN r
     ELSE [QEmit(r, Connecting) EXCEPT !.status = Connecting]

\* AmqpQueue.#onClose, also the body of MqttQueue.#onConnStatusChanged for a
\* status other than Connected (there without the channel).
Queue_onClose(q) ==
  LET r == [q EXCEPT !.channel = FALSE, !.newer = FALSE]
  IN IF r.status = Closing \/ r.status = Closed \/ r.status = Connecting
     THEN r
     ELSE [QEmit(r, Connecting) EXCEPT !.status = Connecting, !.timers = @ + 1]

\* AmqpQueue.#onError, bound to 'error' of the channel: its body is empty.
Queue_onError(q) == q

\* #onConnStatusChanged(status), with the connection as it is when the event
\* is emitted.  The channels of a connection end with it.
Queue_onConnStatusChanged(q, c, s) ==
  IF s \in {Closed, Closing, Connecting, Disconnected}
    THEN [Queue_onClose(q) EXCEPT !.orphan = FALSE]
  ELSE IF s = Connected THEN Queue_innerConnect(q, c)
  ELSE q

QueueBounded(q) ==
  /\ q.timers <= MaxTimers
  /\ Len(q.closes) <= MaxEnds
  /\ q.ticks <= MaxTicks

(***************************************************************************)
(* Managers.                                                               *)
(*   state  : "none" (not constructed), "open", "closing", "closed"        *)
(*   status : #status, Ready or NotReady                                   *)
(*   queues : the indices in qs of its four queues                         *)
(*   pc     : the step of close()'s waterfall that is in progress          *)
(*   calls  : the number of close() calls                                  *)
(*   done   : the number of calls of close()'s callback                    *)
(*   failed : close()'s callback was called with an error                  *)
(*   released: the number of removeConnection calls made by close()        *)
(*   emitted: the status events emitted in the last step                   *)
(***************************************************************************)
NoManager(kind) ==
  [ kind |-> kind, state |-> "none", status |-> NotReady, queues |-> <<>>,
    pc |-> 0, done |-> 0, calls |-> 0, failed |-> FALSE, released |-> 0,
    emitted |-> <<>> ]

\* #gmqStatusHandler without the comparison with #status: every event of a
\* queue is passed on.
Mgr_gmqStatusHandler_NoCompare(m, Q) ==
  LET status == IF \A k \in 1..Len(m.queues) : Q[m.queues[k]].status = Connected
                THEN Ready ELSE NotReady
  IN [m EXCEPT !.status = status, !.emitted = Append(@, status)]

\* #gmqStatusHandler of ApplicationMgr and NetworkMgr, with the statuses the
\* four queues have when the event is delivered.
Mgr_gmqStatusHandler(m, Q) ==
  LET status == IF \A k \in 1..Len(m.queues) : Q[m.queues[k]].status = Connected
                THEN Ready ELSE NotReady
  IN IF m.status = status THEN m
     ELSE [m EXCEPT !.status = status, !.emitted = Append(@, status)]

\* The events of evs that follow the first n.
RECURSIVE Drop(_, _)
Drop(evs, n) == IF n = 0 \/ evs = <<>> THEN evs ELSE Drop(Tail(evs), n - 1)

\* EventEmitter.emit on a queue: the manager listener runs once for every
\* status event, when the queue has the status just emitted.
RECURSIVE Queue_emit(_, _, _, _)
Queue_emit(M, Q, i, evs) ==
  IF evs = <<>> \/ ~Q[i].mgrL \/ Q[i].owner = 0 THEN M
  ELSE LET o == Q[i].owner
           Qe == [Q EXCEPT ![i].status = Head(evs)]
       IN Queue_emit([M EXCEPT ![o] = Mgr_gmqStatusHandler(M[o], Qe)],
                     Q, i, Tail(evs))

\* Replace queue i by r (the result of an operation on it) and deliver the
\* events the operation emitted.
PutQueue(Q, M, i, r) ==
  LET Q2 == [Q EXCEPT ![i] = r]
  IN [ qs |-> Q2,
       mgrs |-> Queue_emit(M, Q2, i, Drop(r.emitted, Len(Q[i].emitted))) ]

\* EventEmitter.emit on the connection: the queue listeners run in the order
\* in which the queues were constructed.
RECURSIVE Connection_emit(_, _, _, _, _)
Connection_emit(c, Q, M, s, i) ==
  IF i > Len(Q) THEN [qs |-> Q, mgrs |-> M]
  ELSE LET r == IF Q[i].connL THEN Queue_onConnStatusChanged(Q[i], c, s) ELSE Q[i]
           n == PutQueue(Q, M, i, r)
       IN Connection_emit(c, n.qs, n.mgrs, s, i + 1)

RECURSIVE Connection_emitAll(_, _, _, _)
Connection_emitAll(c, Q, M, evs) ==
  IF evs = <<>> THEN [qs |-> Q, mgrs |-> M]
  ELSE LET n == Connection_emit(c, Q, M, Head(evs), 1)
       IN Connection_emitAll(c, n.qs, n.mgrs, Tail(evs))

(***************************************************************************)
(* Steps.                                                                  *)
(***************************************************************************)
Fresh(c) == [c EXCEPT !.emitted = <<>>]
FreshQ(Q) ==
  [i \in 1..Len(Q) |-> [Q[i] EXCEPT !.emitted = <<>>, !.threw = FALSE,
                                     !.sendRes = ""]]
FreshM(M) == [i \in 1..Len(M) |-> [M[i] EXCEPT !.emitted = <<>>]]

\* A pending attempt stays live only while the raw connection stays up.
Liveness(Q0, Q, c) ==
  [i \in 1..Len(Q) |->
     [Q[i] EXCEPT !.live = /\ Q[i].attempts > 0
                           /\ c.raw = "up"
                           /\ (Q0[i].live \/ Q0[i].attempts = 0)]]

Bounded(c, Q) ==
  /\ ConnBounded(c)
  /\ \A i \in 1..Len(Q) : QueueBounded(Q[i])

\* EventEmitter.emit with no listener that calls back into the emitter: the
\* listeners of the first queue, when there are any, receive the status
\* events of the step in the order of emission.
Listen(l, evs) ==
  IF l = <<>> THEN l ELSE [order |-> evs, got |-> <<evs, evs>>]

\* The step made by an operation on the connection that left it as c.
ConnStep(c, label) ==
  LET n == Connection_emitAll(c, FreshQ(qs), FreshM(mgrs), c.emitted)
  IN /\ Bounded(c, n.qs)
     /\ conn' = c
     /\ qs' = Liveness(qs, n.qs, c)
     /\ mgrs' = n.mgrs
     /\ lsn' = Listen(lsn, IF n.qs = <<>> THEN <<>> ELSE n.qs[1].emitted)
     /\ act' = label
     /\ UNCHANGED <<pool, msgs, others>>

\* The step made by an operation on queue i that left it as r and the
\* listeners as l.
QueueStepHeard(i, r, label, l) ==
  LET n == PutQueue(FreshQ(qs), FreshM(mgrs), i, r)
  IN /\ Bounded(conn, n.qs)
     /\ conn' = Fresh(conn)
     /\ qs' = Liveness(qs, n.qs, conn)
     /\ mgrs' = n.mgrs
     /\ lsn' = l
     /\ act' = label
     /\ UNCHANGED <<pool, msgs, others>>

\* The step made by an operation on queue i that left it as r.
QueueStep(i, r, label) ==
  QueueStepHeard(i, r, label, Listen(lsn, IF i = 1 THEN r.emitted ELSE <<>>))

(***************************************************************************)
(* Connection: calls of the user and callbacks of the environment.         *)
(***************************************************************************)
DialPending(c) == c.dials > 0 \/ c.timers > 0 \/ c.raw = "connecting"

ConnConnect ==
  ConnStep(Connection_connect(
             [Fresh(conn) EXCEPT !.closeReq = FALSE, !.cancelReq = FALSE]),
           "ConnConnect")

ConnClose(hasCb) ==
  ConnStep(Connection_close(
             [Fresh(conn) EXCEPT !.closeReq = TRUE,
                                 !.cancelReq = DialPending(conn),
                                 !.newDial = FALSE,
                                 !.owed = IF hasCb THEN @ + 1 ELSE @], hasCb),
           "ConnClose")

ConnDialDone(ok) ==
  /\ conn.engine = "amqp"
  /\ conn.dials > 0
  /\ ConnStep(AmqpConnection_dialDone(Fresh(conn), ok),
              IF ok THEN "ConnDialOk" ELSE "ConnDialFail")

ConnRetry ==
  /\ conn.timers > 0
  /\ ConnStep(AmqpConnection_retry(Fresh(conn)), "ConnRetry")

\* 'close' (or mqtt 'offline') of the client #conn refers to.
ConnRawClose ==
  /\ conn.raw # "null"
  /\ ConnStep(Connection_onClose(Fresh(conn)), "ConnRawClose")

\* 'close' of a replaced client whose listeners are still bound.
ConnStaleClose ==
  /\ conn.stale > 0
  /\ ConnStep(Connection_onClose([Fresh(conn) EXCEPT !.stale = @ - 1]),
              "ConnStaleClose")

ConnRawConnect ==
  /\ conn.engine = "mqtt"
  /\ conn.raw = "connecting"
  /\ ConnStep(MqttConnection_onConnect(Fresh(conn)), "ConnRawConnect")

ConnRawReconnect ==
  /\ conn.engine = "mqtt"
  /\ conn.raw = "connecting"
  /\ ConnStep(MqttConnection_onReconnect(Fresh(conn)), "ConnRawReconnect")

ConnCloseDone ==
  /\ conn.ends # <<>>
  /\ ConnStep(Connection_closeDone(Fresh(conn)), "ConnCloseDone")

\* A close callback scheduled with process.nextTick runs.
ConnTick ==
  /\ conn.ticks > 0
  /\ ConnStep([Fresh(conn) EXCEPT !.ticks = @ - 1, !.owed = @ - 1], "ConnTick")

ConnUser ==
  \/ ConnConnect
  \/ \E hasCb \in BOOLEAN : ConnClose(hasCb)

ConnEnv ==
  \/ \E ok \in BOOLEAN : ConnDialDone(ok)
  \/ ConnRetry
  \/ ConnRawClose
  \/ ConnStaleClose
  \/ ConnRawConnect
  \/ ConnRawReconnect
  \/ ConnCloseDone
  \/ ConnTick

(***************************************************************************)
(* The connection alone.                                                   *)
(***************************************************************************)
NoPool == [present |-> FALSE, count |-> 0]

InitConn ==
  /\ \E e \in Engines : conn = NewConnection(e)
  /\ qs = <<>>
  /\ mgrs = <<>>
  /\ pool = NoPool
  /\ msgs = <<>>
  /\ NoRest
  /\ act = "Init"

NextConn == ConnUser \/ ConnEnv

SpecConn == InitConn /\ [][NextConn]_vars

(***************************************************************************)
(* Queue: calls of the user and callbacks of the environment.              *)
(***************************************************************************)
QSetMsgHandler(i) ==
  /\ ~qs[i].handler
  /\ QueueStep(i, [FreshQ(qs)[i] EXCEPT !.handler = TRUE], "QSetMsgHandler")

\* queue.on('error', listener)
QOnError(i) ==
  /\ qs[i].owner = 0
  /\ ~qs[i].errL
  /\ QueueStep(i, [FreshQ(qs)[i] EXCEPT !.errL = TRUE], "QOnError")

QConnect(i) ==
  /\ qs[i].owner = 0
  /\ QueueStep(i, Queue_connect([FreshQ(qs)[i] EXCEPT !.closeReq = FALSE],
                                Fresh(conn)),
               "QConnect")

QSendMsg(i) ==
  /\ qs[i].owner = 0
  /\ QueueStep(i, Queue_sendMsg(FreshQ(qs)[i], Fresh(conn)), "QSendMsg")

QClose(i, hasCb) ==
  /\ qs[i].owner = 0
  /\ QueueStep(i, Queue_close([FreshQ(qs)[i] EXCEPT
                                 !.closeReq = TRUE,
                                 !.owed = IF hasCb THEN @ + 1 ELSE @],
                              Fresh(conn), hasCb),
               "QClose")

\* The channel set-up or the subscribe completes; it can succeed only on the
\* raw connection it was started on.
QInnerConnectDone(i, ok) ==
  /\ qs[i].attempts > 0
  /\ ok => qs[i].live
  /\ QueueStep(i, Queue_innerConnectDone(FreshQ(qs)[i], ok),
               IF ok THEN "QInnerConnectOk" ELSE "QInnerConnectFail")

QRetry(i) ==
  /\ qs[i].timers > 0
  /\ QueueStep(i, Queue_retry(FreshQ(qs)[i], Fresh(conn)), "QRetry")

QCloseDone(i, err) ==
  /\ qs[i].closes # <<>>
  /\ QueueStep(i, Queue_closeDone(FreshQ(qs)[i], err), "QCloseDone")

\* 'close' of the AMQP channel.
QChannelClose(i) ==
  /\ qs[i].engine = "amqp"
  /\ qs[i].channel
  /\ QueueStep(i, Queue_onClose(FreshQ(qs)[i]), "QChannelClose")

\* 'error' of the AMQP channel.
QChannelError(i) ==
  /\ qs[i].engine = "amqp"
  /\ qs[i].channel
  /\ QueueStep(i, Queue_onError(FreshQ(qs)[i]), "QChannelError")

\* A close callback scheduled with process.nextTick runs.
QTick(i) ==
  /\ qs[i].ticks > 0
  /\ qs[i].owner = 0
  /\ QueueStep(i, Queue_closeCallback(FreshQ(qs)[i]), "QTick")

(***************************************************************************)
(* One queue on one connection.                                            *)
(***************************************************************************)
InitQueue ==
  /\ \E e \in Engines, r \in BOOLEAN :
       /\ conn = NewConnection(e)
       /\ qs = <<NewQueue(e, r, 0)>>
  /\ mgrs = <<>>
  /\ pool = NoPool
  /\ msgs = <<>>
  /\ NoRest
  /\ act = "Init"

\* The owner of the connection connects it when it is Closed and idle and
\* closes it when it is Connecting or Connected.
ConnOwnerConnect ==
  /\ conn.status = Closed
  /\ ~DialPending(conn)
  /\ conn.ends = <<>>
  /\ ConnConnect

ConnOwnerClose ==
  /\ conn.status \in {Connecting, Connected}
  /\ ConnClose(FALSE)

\* The owner calls connect() again on a connection that is Connecting or
\* Connected.
ConnOwnerConnectAgain ==
  /\ conn.status \in {Connecting, Connected}
  /\ ConnConnect

ConnOwned ==
  \/ ConnOwnerConnect
  \/ ConnOwnerConnectAgain
  \/ ConnOwnerClose
  \/ \E ok \in BOOLEAN : ConnDialDone(ok)
  \/ ConnRetry
  \/ ConnRawClose
  \/ ConnRawConnect
  \/ ConnRawReconnect
  \/ ConnCloseDone

NextQueue ==
  \/ ConnOwned
  \/ \E i \in 1..Len(qs) : QSetMsgHandler(i)
  \/ \E i \in 1..Len(qs) : QOnError(i)
  \/ \E i \in 1..Len(qs) : QConnect(i)
  \/ \E i \in 1..Len(qs) : QSendMsg(i)
  \/ \E i \in 1..Len(qs), hasCb \in BOOLEAN : QClose(i, hasCb)
  \/ \E i \in 1..Len(qs), ok \in BOOLEAN : QInnerConnectDone(i, ok)
  \/ \E i \in 1..Len(qs) : QRetry(i)
  \/ \E i \in 1..Len(qs), err \in BOOLEAN : QCloseDone(i, err)
  \/ \E i \in 1..Len(qs) : QChannelClose(i)
  \/ \E i \in 1..Len(qs) : QChannelError(i)
  \/ \E i \in 1..Len(qs) : QTick(i)

SpecQueue == InitQueue /\ [][NextQueue]_vars

(***************************************************************************)
(* Claims about the connection (checked under SpecConn).                   *)
(***************************************************************************)
RECURSIVE CountTrue(_)
CountTrue(seq) ==
  IF seq = <<>> THEN 0
  ELSE (IF Head(seq) THEN 1 ELSE 0) + CountTrue(Tail(seq))

\* Nothing the connection started is pending any more.
ConnQuiescent ==
  /\ conn.dials = 0
  /\ conn.timers = 0
  /\ conn.ends = <<>>
  /\ conn.ticks = 0
  /\ conn.raw # "connecting"

\* C5: whenever close(cb) is called on a connection, in any state, the status
\* eventually becomes Closed and cb is invoked exactly once.  Stated on finite
\* runs: every callback of a close(cb) call is either still pending or was
\* invoked once, and when close() was the last call and nothing the connection
\* started is pending any more, the status is Closed and no callback is owed.
C5_CloseReachesClosed ==
  /\ conn.owed = conn.ticks + CountTrue(conn.ends)
  /\ (conn.closeReq /\ ConnQuiescent) => (conn.status = Closed /\ conn.owed = 0)

\* C6: after close() was called while a dial was pending or a retry timer was
\* scheduled, and until connect() is called again, no dial is started and the
\* connection does not become Connected.
C6_CloseCancelsDial ==
  conn.cancelReq => (conn.status # Connected /\ ~conn.newDial)

\* C9: a transport loss while the connection is neither Closing nor Closed
\* sets it to Connecting, emits Connecting and starts a dial; a failed dial
\* schedules a retry, a retry starts a dial, a dial that succeeds sets the
\* connection to Connected; and a Connecting connection always has a dial or
\* a retry pending, so the retries never end.
C9_Step ==
  /\ (act' \in {"ConnRawClose", "ConnStaleClose"} /\ conn.status \notin {Closing, Closed})
       => /\ conn'.status = Connecting
          /\ conn'.emitted = <<Connecting>>
          /\ DialPending(conn')
  /\ act' = "ConnDialFail" => conn'.timers = conn.timers + 1
  /\ act' = "ConnRetry" => conn'.dials = conn.dials + 1
  /\ act' \in {"ConnDialOk", "ConnRawConnect"}
       => (conn'.status = Connected /\ conn'.emitted = <<Connected>>)
  /\ conn'.status = Connecting => DialPending(conn')

C9_ReconnectAfterLoss == [][C9_Step]_vars

\* A connection that was Connected lost its transport and is dialling again.
C9_Witness ==
  /\ act = "ConnRawClose"
  /\ conn.status = Connecting
  /\ conn.emitted = <<Connecting>>
  /\ DialPending(conn)

(***************************************************************************)
(* Claims about one queue (checked under SpecQueue).                       *)
(***************************************************************************)
\* Nothing queue i started is pending any more.
QueueQuiescent(i) ==
  /\ qs[i].attempts = 0
  /\ qs[i].timers = 0
  /\ qs[i].closes = <<>>
  /\ qs[i].ticks = 0

\* C3: close(), with or without a callback, in any queue state and any state
\* of the connection, throws nothing, the status eventually becomes Closed and
\* a callback is invoked exactly once.  Stated on finite runs: close() never
\* throws, every callback of a close(cb) call is either pending or was invoked
\* once, and when close() was the last call and nothing the queue started is
\* pending any more, the status is Closed and no callback is owed.
C3_QueueCloseReachesClosed ==
  \A i \in 1..Len(qs) :
    /\ act = "QClose" => ~qs[i].threw
    /\ qs[i].owed = qs[i].ticks + CountTrue(qs[i].closes)
    /\ (qs[i].closeReq /\ QueueQuiescent(i))
         => (qs[i].status = Closed /\ qs[i].owed = 0)

\* C4: a queue that is Closed stays Closed and emits no status event until
\* connect() is called: no attempt in flight and no pending timer sets it to
\* Connected.
C4_Step ==
  \A i \in 1..Len(qs) :
    (qs[i].status = Closed /\ act' # "QConnect")
      => (qs'[i].status = Closed /\ qs'[i].emitted = <<>>)

C4_ClosedStaysClosed == [][C4_Step]_vars

\* The connection emitted, in this step, a status other than Connected.
ConnLeft ==
  /\ conn'.emitted # <<>>
  /\ \A k \in 1..Len(conn'.emitted) : conn'.emitted[k] # Connected

\* C7: when the connection emits a status other than Connected, a Connected
\* queue changes to Connecting, emits exactly one Connecting event and
\* schedules one inner connect; a Closing, Closed or Connecting queue keeps its
\* status and emits nothing.
C7_Step ==
  \A i \in 1..Len(qs) :
    (ConnLeft /\ qs[i].connL) =>
      /\ qs[i].status = Connected
           => /\ qs'[i].status = Connecting
              /\ qs'[i].emitted = <<Connecting>>
              /\ qs'[i].timers = qs[i].timers + 1
      /\ qs[i].status \in {Closing, Closed, Connecting}
           => /\ qs'[i].status = qs[i].status
              /\ qs'[i].emitted = <<>>
              /\ qs'[i].timers = qs[i].timers

C7_ConnLossCascade == [][C7_Step]_vars

\* A Connected queue was set to Connecting by an event of the connection.
C7_Witness ==
  /\ act \in {"ConnRawClose", "ConnClose"}
  /\ conn.emitted # <<>>
  /\ qs[1].status = Connecting
  /\ qs[1].emitted = <<Connecting>>
  /\ qs[1].timers = 1

\* The connection emitted Connected in this step.
ConnArrived ==
  \E k \in 1..Len(conn'.emitted) : conn'.emitted[k] = Connected

\* C8: a Connecting queue whose connection becomes Connected starts its
\* channel set-up or subscribe at once (an MQTT sender is Connected at once),
\* so does a retry timer that fires while the connection is Connected, and a
\* set-up or subscribe that succeeds sets the queue to Connected; and in no
\* state is the queue Connecting with a Connected connection, no attempt in
\* flight and no retry timer pending.
C8_Step ==
  \A i \in 1..Len(qs) :
    /\ (ConnArrived /\ qs[i].connL /\ qs[i].status = Connecting)
         => (qs'[i].attempts > 0 \/ qs'[i].status = Connected)
    /\ (act' = "QRetry" /\ qs[i].status = Connecting /\ conn.status = Connected)
         => (qs'[i].attempts > 0 \/ qs'[i].status = Connected)
    /\ act' = "QInnerConnectOk"
         => (qs'[i].status = Connected /\ qs'[i].emitted = <<Connected>>)
    /\ (qs'[i].status = Connecting /\ conn'.status = Connected)
         => (qs'[i].attempts > 0 \/ qs'[i].timers > 0)

C8_ConnectingQueueProgresses == [][C8_Step]_vars

(***************************************************************************)
(* Managers on one pool and one host URI.                                  *)
(***************************************************************************)
MaxMgrs == 2

\* The number of close() calls on one manager.
MaxCloses == 2

\* The managers are in turn an ApplicationMgr and a NetworkMgr.
MgrKind(m) == IF m % 2 = 1 THEN "application" ELSE "network"

\* newDataQueues: isRecv of the four queues in the order of construction,
\* uldata, dldata, dldata-resp, dldata-result for an application and uldata,
\* dldata, dldata-result, ctrl for a network.
newDataQueues(engine, isNetwork, owner) ==
  IF isNetwork
  THEN << NewQueue(engine, FALSE, owner), NewQueue(engine, TRUE, owner),
          NewQueue(engine, FALSE, owner), NewQueue(engine, TRUE, owner) >>
  ELSE << NewQueue(engine, TRUE, owner), NewQueue(engine, FALSE, owner),
          NewQueue(engine, TRUE, owner), NewQueue(engine, TRUE, owner) >>

\* getConnection: the pool entry of the URI, created with count 0 if absent.
getConnection(p) == IF p.present THEN p ELSE [present |-> TRUE, count |-> 0]

\* The constructor's queue.on(status), queue.setMsgHandler() and
\* queue.connect(), for the queues k..4 of manager m in turn.
RECURSIVE Mgr_connectQueues(_, _, _, _, _)
Mgr_connectQueues(Q, M, c, m, k) ==
  IF k > Len(M[m].queues) THEN [qs |-> Q, mgrs |-> M]
  ELSE LET i == M[m].queues[k]
           Qa == [Q EXCEPT ![i].mgrL = TRUE, ![i].handler = TRUE]
           n == PutQueue(Qa, M, i, Queue_connect(Qa[i], c))
       IN Mgr_connectQueues(n.qs, n.mgrs, c, m, k + 1)

\* One step of close()'s waterfall: queue.removeAllListeners() and
\* queue.close(cb) for queue k of manager m.
Mgr_closeQueue(Q, c, m, k) ==
  LET i == mgrs[m].queues[k]
      q == [Q[i] EXCEPT !.mgrL = FALSE, !.errL = FALSE, !.closeReq = TRUE,
                        !.owed = @ + 1]
  IN [Q EXCEPT ![i] = Queue_close(q, c, TRUE)]

\* removeConnection that keeps the entry at count zero.
removeConnection_NoDelete(p) ==
  [present |-> TRUE, count |-> p.count - 4]

\* removeConnection: the count is decreased by 4 and the entry is deleted at
\* zero; whatever the count, every listener of the connection is removed and
\* the connection is closed.
removeConnection(p) ==
  [present |-> p.count - 4 > 0, count |-> p.count - 4]

\* new ApplicationMgr(...) / new NetworkMgr(...).  The model has one
\* connection object: a manager is constructed while the pool still holds the
\* entry of the first one.
MgrNew(m) ==
  /\ mgrs[m].state = "none"
  /\ pool.present \/ \A k \in 1..MaxMgrs : mgrs[k].state = "none"
  /\ LET base == Len(qs)
         Q1 == FreshQ(qs) \o newDataQueues(conn.engine, MgrKind(m) = "network", m)
         c1 == Connection_connect(
                 [Fresh(conn) EXCEPT !.closeReq = FALSE, !.cancelReq = FALSE])
         M1 == [FreshM(mgrs) EXCEPT
                  ![m].state = "open",
                  ![m].queues = <<base + 1, base + 2, base + 3, base + 4>>]
         n1 == Connection_emitAll(c1, Q1, M1, c1.emitted)
         n2 == Mgr_connectQueues(n1.qs, n1.mgrs, c1, m, 1)
     IN /\ Bounded(c1, n2.qs)
        /\ conn' = c1
        /\ qs' = Liveness(Q1, n2.qs, c1)
        /\ mgrs' = n2.mgrs
        /\ pool' = [getConnection(pool) EXCEPT !.count = @ + 4]
        /\ act' = "MgrNew"
        /\ UNCHANGED <<msgs, rest>>

\* close(callback): the first step of the waterfall.  The user closes a
\* manager whose status() is Ready, or closes again a manager whose close()
\* has called back with no error.
MgrClose(m) ==
  /\ \/ mgrs[m].state = "open" /\ mgrs[m].status = Ready
     \/ mgrs[m].state = "closed" /\ ~mgrs[m].failed
  /\ mgrs[m].calls < MaxCloses
  /\ LET Q == Mgr_closeQueue(FreshQ(qs), Fresh(conn), m, 1)
     IN /\ Bounded(conn, Q)
        /\ qs' = Liveness(qs, Q, conn)
        /\ mgrs' = [FreshM(mgrs) EXCEPT ![m].state = "closing", ![m].pc = 1,
                                        ![m].calls = @ + 1]
        /\ conn' = Fresh(conn)
        /\ act' = "MgrClose"
        /\ UNCHANGED <<pool, msgs, rest>>

\* The close callback of queue pc runs with no error and pc < 4: the next
\* step of the waterfall closes the next queue.
MgrCloseNext(m) ==
  /\ mgrs[m].state = "closing"
  /\ mgrs[m].pc \in 1..3
  /\ LET i == mgrs[m].queues[mgrs[m].pc]
         Q0 == [FreshQ(qs) EXCEPT ![i] = Queue_closeCallback(@)]
         Q == Mgr_closeQueue(Q0, Fresh(conn), m, mgrs[m].pc + 1)
     IN /\ qs[i].ticks > 0
        /\ qs[i].errs = 0
        /\ Bounded(conn, Q)
        /\ qs' = Liveness(qs, Q, conn)
        /\ mgrs' = [FreshM(mgrs) EXCEPT ![m].pc = @ + 1]
        /\ conn' = Fresh(conn)
        /\ act' = "MgrCloseNext"
        /\ UNCHANGED <<pool, msgs, rest>>

\* The close callback of queue pc runs with an error: the waterfall ends and
\* close()'s callback is called with it; removeConnection is not reached.
MgrCloseAbort(m) ==
  /\ mgrs[m].state = "closing"
  /\ mgrs[m].pc \in 1..4
  /\ LET i == mgrs[m].queues[mgrs[m].pc]
     IN /\ qs[i].ticks > 0
        /\ qs[i].errs > 0
        /\ qs' = [FreshQ(qs) EXCEPT ![i] = Queue_closeCallback(@)]
        /\ mgrs' = [FreshM(mgrs) EXCEPT ![m].state = "closed", ![m].pc = 0,
                                        ![m].done = @ + 1,
                                        ![m].failed = TRUE]
        /\ conn' = Fresh(conn)
        /\ act' = "MgrCloseAbort"
        /\ UNCHANGED <<pool, msgs, rest>>

\* The close callback of the fourth queue runs with no error: the last step
\* of the waterfall calls removeConnection.
MgrRemoveConnection(m) ==
  /\ mgrs[m].state = "closing"
  /\ mgrs[m].pc = 4
  /\ LET i == mgrs[m].queues[4]
         Q0 == [FreshQ(qs) EXCEPT ![i] = Queue_closeCallback(@)]
         Q == IF pool.present
              THEN [k \in 1..Len(Q0) |-> [Q0[k] EXCEPT !.connL = FALSE]]
              ELSE Q0
         c == IF pool.present
              THEN Connection_close(
                     [Fresh(conn) EXCEPT !.closeReq = TRUE,
                                         !.cancelReq = DialPending(conn),
                                         !.newDial = FALSE,
                                         !.owed = @ + 1], TRUE)
              ELSE Fresh(conn)
     IN /\ qs[i].ticks > 0
        /\ qs[i].errs = 0
        /\ Bounded(c, Q)
        /\ qs' = Liveness(qs, Q, c)
        /\ conn' = c
        /\ pool' = IF pool.present THEN removeConnection(pool) ELSE pool
        /\ mgrs' = [FreshM(mgrs) EXCEPT
                      ![m].pc = IF pool.present THEN 5 ELSE 6,
                      ![m].released = @ + 1]
        /\ act' = "MgrRemoveConnection"
        /\ UNCHANGED <<msgs, rest>>

\* The callback of removeConnection runs: close()'s callback is called.
MgrClosed(m) ==
  /\ mgrs[m].state = "closing"
  /\ \/ mgrs[m].pc = 5 /\ conn.ticks > 0
     \/ mgrs[m].pc = 6
  /\ conn' = IF mgrs[m].pc = 5
             THEN [Fresh(conn) EXCEPT !.ticks = @ - 1, !.owed = @ - 1]
             ELSE Fresh(conn)
  /\ qs' = FreshQ(qs)
  /\ mgrs' = [FreshM(mgrs) EXCEPT ![m].state = "closed", ![m].pc = 0,
                                  ![m].done = @ + 1]
  /\ act' = "MgrClosed"
  /\ UNCHANGED <<pool, msgs, rest>>

\* The broker answers on one connection and the timers have one delay: in
\* this specification the pending operations of one kind complete in the
\* order of the queues.
MgrQInnerConnectDone(i) ==
  /\ \A j \in 1..(i - 1) : qs[j].attempts = 0
  /\ QInnerConnectDone(i, TRUE)

MgrQRetry(i) ==
  /\ \A j \in 1..(i - 1) : qs[j].timers = 0
  /\ QRetry(i)

MgrQCloseDone(i, err) ==
  /\ \A j \in 1..(i - 1) : qs[j].closes = <<>>
  /\ QCloseDone(i, err)

InitMgr ==
  /\ \E e \in Engines : conn = NewConnection(e)
  /\ qs = <<>>
  /\ mgrs = [m \in 1..MaxMgrs |-> NoManager(MgrKind(m))]
  /\ pool = NoPool
  /\ msgs = <<>>
  /\ NoRest
  /\ act = "Init"

NextMgr ==
  \/ \E m \in 1..MaxMgrs : MgrNew(m)
  \/ \E m \in 1..MaxMgrs : MgrClose(m)
  \/ \E m \in 1..MaxMgrs : MgrCloseNext(m)
  \/ \E m \in 1..MaxMgrs : MgrCloseAbort(m)
  \/ \E m \in 1..MaxMgrs : MgrRemoveConnection(m)
  \/ \E m \in 1..MaxMgrs : MgrClosed(m)
  \/ \E ok \in BOOLEAN : ConnDialDone(ok)
  \/ ConnRetry
  \/ ConnRawConnect
  \/ ConnRawReconnect
  \/ ConnCloseDone
  \/ \E i \in 1..Len(qs) : MgrQInnerConnectDone(i)
  \/ \E i \in 1..Len(qs) : MgrQRetry(i)
  \/ \E i \in 1..Len(qs), err \in BOOLEAN : MgrQCloseDone(i, err)

SpecMgr == InitMgr /\ [][NextMgr]_vars

(***************************************************************************)
(* Claims about the managers (checked under SpecMgr).                      *)
(***************************************************************************)
\* Every queue of manager m is Connected.
AllConnected(m) ==
  \A k \in 1..Len(mgrs[m].queues) : qs[mgrs[m].queues[k]].status = Connected

\* C1: in every reachable state of a manager, also after its close() and
\* after the pooled connection was closed by another manager, status() is
\* Ready if and only if its four queues are all Connected.
C1_ReadyIffAllConnected ==
  \A m \in 1..Len(mgrs) :
    mgrs[m].state # "none" => (mgrs[m].status = Ready <=> AllConnected(m))

\* C2: when removeConnection runs for a closed manager and leaves the
\* reference count above zero, it neither closes the connection nor removes
\* its listeners: the status of the connection, of the queues of the other
\* manager and of the other manager are what they were.
C2_Step ==
  (act' = "MgrRemoveConnection" /\ pool'.count > 0)
    => /\ conn'.status = conn.status
       /\ conn'.ends = conn.ends
       /\ \A i \in 1..Len(qs) :
            /\ qs'[i].connL = qs[i].connL
            /\ mgrs[qs[i].owner].state = "open" => qs'[i].status = qs[i].status
       /\ \A m \in 1..Len(mgrs) : mgrs'[m].status = mgrs[m].status

C2_SharedConnectionSurvives == [][C2_Step]_vars

(***************************************************************************)
(* Inbound messages of one Ready manager.                                  *)
(*   msgs[j].queue   : the index (1..4) of the manager's queue it came on  *)
(*   msgs[j].payload : what the payload is as JSON text                    *)
(*   msgs[j].stage   : "handler" (the user handler was called and has not  *)
(*                     completed), "done", or "threw" (#gmqMsgHandler      *)
(*                     threw)                                              *)
(*   msgs[j].called  : the user handler was called for it                  *)
(*   msgs[j].err     : the user handler's completion reported an error     *)
(*   msgs[j].acks, msgs[j].nacks : calls of queue.ack / queue.nack for it  *)
(***************************************************************************)
MaxMsgs == 2

\* Payloads: text that JSON.parse rejects, and the JSON texts `null`, `1`,
\* `{}` and an object with a hex string `data`.
Payloads == {"invalid", "null", "number", "empty", "full"}

\* The names of a manager's queues, in the order of construction.
QueueNames(kind) ==
  IF kind = "application"
  THEN <<"uldata", "dldata", "dldata-resp", "dldata-result">>
  ELSE <<"uldata", "dldata", "dldata-result", "ctrl">>

\* `data.x = ...` in class code (strict mode) throws unless data is an object.
AssignThrows(payload) == payload \in {"null", "number"}

\* Buffer.from(data.data, 'hex') throws unless data.data is a string.
BufferFromThrows(payload) == payload # "full"

\* Mutant: #gmqMsgHandler that acks when it calls the user handler.
Mgr_gmqMsgHandler_AckFirst(kind, k, payload) ==
  LET name == QueueNames(kind)[k]
      msg == [queue |-> k, payload |-> payload, stage |-> "done",
              called |-> FALSE, err |-> FALSE, acks |-> 0, nacks |-> 0]
      threw == [msg EXCEPT !.stage = "threw"]
      called == [msg EXCEPT !.stage = "handler", !.called = TRUE]
  IN IF payload = "invalid" THEN [msg EXCEPT !.acks = 1]
     ELSE IF kind = "application"
     THEN IF name = "uldata"
          THEN IF AssignThrows(payload) \/ BufferFromThrows(payload)
               THEN threw ELSE [called EXCEPT !.acks = 1]
          ELSE IF name \in {"dldata-resp", "dldata-result"} THEN [called EXCEPT !.acks = 1]
          ELSE msg
     ELSE IF name = "dldata"
          THEN IF AssignThrows(payload) \/ BufferFromThrows(payload)
               THEN threw ELSE [called EXCEPT !.acks = 1]
          ELSE IF name = "ctrl"
          THEN IF AssignThrows(payload) THEN threw ELSE [called EXCEPT !.acks = 1]
          ELSE msg

\* Mutant: #gmqMsgHandler that nacks a payload JSON.parse rejects.
Mgr_gmqMsgHandler_NackInvalid(kind, k, payload) ==
  LET name == QueueNames(kind)[k]
      msg == [queue |-> k, payload |-> payload, stage |-> "done",
              called |-> FALSE, err |-> FALSE, acks |-> 0, nacks |-> 0]
      threw == [msg EXCEPT !.stage = "threw"]
      called == [msg EXCEPT !.stage = "handler", !.called = TRUE]
  IN IF payload = "invalid" THEN [msg EXCEPT !.nacks = 1]
     ELSE IF kind = "application"
     THEN IF name = "uldata"
          THEN IF AssignThrows(payload) \/ BufferFromThrows(payload)
               THEN threw ELSE called
          ELSE IF name \in {"dldata-resp", "dldata-result"} THEN called
          ELSE msg
     ELSE IF name = "dldata"
          THEN IF AssignThrows(payload) \/ BufferFromThrows(payload)
               THEN threw ELSE called
          ELSE IF name = "ctrl"
          THEN IF AssignThrows(payload) THEN threw ELSE called
          ELSE msg

\* #gmqMsgHandler(queue, msg) of ApplicationMgr and NetworkMgr up to the call
\* of the user handler.
Mgr_gmqMsgHandler(kind, k, payload) ==
  LET name == QueueNames(kind)[k]
      msg == [queue |-> k, payload |-> payload, stage |-> "done",
              called |-> FALSE, err |-> FALSE, acks |-> 0, nacks |-> 0]
      threw == [msg EXCEPT !.stage = "threw"]
      called == [msg EXCEPT !.stage = "handler", !.called = TRUE]
  IN IF payload = "invalid" THEN [msg EXCEPT !.acks = 1]
     ELSE IF kind = "application"
     THEN IF name = "uldata"
          THEN IF AssignThrows(payload) \/ BufferFromThrows(payload)
               THEN threw ELSE called
          ELSE IF name \in {"dldata-resp", "dldata-result"} THEN called
          ELSE msg
     ELSE IF name = "dldata"
          THEN IF AssignThrows(payload) \/ BufferFromThrows(payload)
               THEN threw ELSE called
          ELSE IF name = "ctrl"
          THEN IF AssignThrows(payload) THEN threw ELSE called
          ELSE msg

\* The completion callback given to the user handler.
Mgr_onHandlerDone(msg, err) ==
  [msg EXCEPT !.stage = "done", !.err = err,
              !.acks = IF err THEN @ ELSE @ + 1,
              !.nacks = IF err THEN @ + 1 ELSE @]

\* #innerOnMessage of a Connected receiver queue of manager m.
MsgDeliver(m, k, payload) ==
  /\ Len(msgs) < MaxMsgs
  /\ mgrs[m].state = "open"
  /\ LET q == qs[mgrs[m].queues[k]]
     IN /\ q.isRecv /\ q.handler /\ q.status = Connected
  /\ msgs' = Append(msgs, Mgr_gmqMsgHandler(mgrs[m].kind, k, payload))
  /\ act' = "MsgDeliver"
  /\ UNCHANGED <<conn, qs, mgrs, pool, rest>>

\* The user handler calls its completion callback, once.
MsgHandlerDone(j, err) ==
  /\ msgs[j].stage = "handler"
  /\ msgs' = [msgs EXCEPT ![j] = Mgr_onHandlerDone(@, err)]
  /\ act' = "MsgHandlerDone"
  /\ UNCHANGED <<conn, qs, mgrs, pool, rest>>

\* A manager that is Ready on a Connected connection.
ReadyQueue(q) ==
  [q EXCEPT !.status = Connected, !.handler = TRUE, !.mgrL = TRUE,
            !.channel = (q.engine = "amqp"),
            !.pkt = (q.engine = "mqtt" /\ q.isRecv)]

InitMsg ==
  /\ \E e \in Engines, isNetwork \in BOOLEAN :
       LET kind == IF isNetwork THEN "network" ELSE "application"
           Q == newDataQueues(e, isNetwork, 1)
       IN /\ conn = [NewConnection(e) EXCEPT !.status = Connected, !.raw = "up",
                                             !.newDial = TRUE]
          /\ qs = [k \in 1..4 |-> ReadyQueue(Q[k])]
          /\ mgrs = << [NoManager(kind) EXCEPT !.state = "open", !.status = Ready,
                                               !.queues = <<1, 2, 3, 4>>] >>
  /\ pool = [present |-> TRUE, count |-> 4]
  /\ msgs = <<>>
  /\ NoRest
  /\ act = "Init"

NextMsg ==
  \/ \E m \in 1..Len(mgrs), k \in 1..4, payload \in Payloads :
       MsgDeliver(m, k, payload)
  \/ \E j \in 1..Len(msgs), err \in BOOLEAN : MsgHandlerDone(j, err)

SpecMsg == InitMsg /\ [][NextMsg]_vars

\* C10: every inbound message that parses as JSON gets at most one
\* settlement, and once its handling has ended exactly one: nack if the user
\* handler's completion reported an error, ack otherwise.
C10_OneSettlement ==
  \A j \in 1..Len(msgs) :
    msgs[j].payload # "invalid" =>
      /\ msgs[j].acks + msgs[j].nacks <= 1
      /\ msgs[j].stage # "handler" =>
           /\ msgs[j].acks + msgs[j].nacks = 1
           /\ msgs[j].nacks = 1 <=> msgs[j].err

\* C11: no ack and no nack is issued for a parsed message before the user
\* handler has called its completion callback: while the handler has not
\* completed the message is unsettled, and a settlement is only ever added by
\* the completion callback of a handler that had not completed.
C11_Step ==
  \A j \in 1..Len(msgs') :
    msgs'[j].payload # "invalid" =>
      /\ msgs'[j].stage = "handler" => (msgs'[j].acks = 0 /\ msgs'[j].nacks = 0)
      /\ (msgs'[j].acks + msgs'[j].nacks > 0 /\ (j > Len(msgs) \/ msgs'[j] # msgs[j]))
           => /\ act' = "MsgHandlerDone"
              /\ j <= Len(msgs)
              /\ msgs[j].stage = "handler"

C11_SettleAfterCompletion == [][C11_Step]_vars

\* A handler is running for one message while another was settled by its
\* completion callback.
C11_Witness ==
  \E i, j \in 1..Len(msgs) :
    /\ msgs[i].stage = "handler" /\ msgs[i].called
    /\ msgs[j].called /\ msgs[j].stage = "done" /\ msgs[j].acks + msgs[j].nacks = 1

\* C12: a payload that is not valid JSON is acked exactly once, never nacked,
\* and no user handler is called for it.
C12_InvalidAckedOnce ==
  \A j \in 1..Len(msgs) :
    msgs[j].payload = "invalid" =>
      /\ msgs[j].acks = 1
      /\ msgs[j].nacks = 0
      /\ ~msgs[j].called
      /\ msgs[j].stage = "done"

\* A payload that is not valid JSON was delivered.
C12_Witness ==
  /\ act = "MsgDeliver"
  /\ msgs[Len(msgs)].payload = "invalid"
  /\ msgs[Len(msgs)].acks = 1

(***************************************************************************)
(* Further claims about one queue (checked under SpecQueue).               *)
(***************************************************************************)
\* What connect() and the callbacks of the queue work on.
QueueCore(q) ==
  <<q.status, q.proc, q.channel, q.handler, q.pkt, q.timers, q.attempts,
    q.closes, q.ticks>>

\* C13: connect() on a receiver queue with no message handler throws and
\* leaves the queue as it was: same status, no status event, no packet
\* handler registered, no attempt and no timer started.
C13_Step ==
  \A i \in 1..Len(qs) :
    (act' = "QConnect" /\ qs[i].isRecv /\ ~qs[i].handler)
      => /\ qs'[i].threw
         /\ qs'[i].emitted = <<>>
         /\ QueueCore(qs'[i]) = QueueCore(qs[i])

C13_ConnectNeedsHandler == [][C13_Step]_vars

\* connect() was called on a receiver queue with no handler and threw, on a
\* connection that is Connected.
C13_Witness ==
  /\ act = "QConnect"
  /\ qs[1].isRecv /\ ~qs[1].handler /\ qs[1].threw
  /\ conn.status = Connected

\* C14: sendMsg on a queue that is not Connected gives NotConnected to its
\* callback, and on a Connected receiver queue QueueIsReceiver; in both cases
\* nothing is published, nothing is thrown and the queue is as it was.
C14_Step ==
  \A i \in 1..Len(qs) :
    act' = "QSendMsg" =>
      /\ qs[i].status # Connected => qs'[i].sendRes = "NotConnected"
      /\ (qs[i].status = Connected /\ qs[i].isRecv)
           => qs'[i].sendRes = "QueueIsReceiver"
      /\ (qs[i].status # Connected \/ qs[i].isRecv)
           => /\ ~qs'[i].threw
              /\ qs'[i].emitted = <<>>
              /\ QueueCore(qs'[i]) = QueueCore(qs[i])

C14_SendMsgErrors == [][C14_Step]_vars

\* sendMsg was called on a Connected receiver queue.
C14_Witness ==
  /\ act = "QSendMsg"
  /\ qs[1].status = Connected
  /\ qs[1].sendRes = "QueueIsReceiver"

\* What connect(), close() and the callbacks of the connection work on.
ConnCore(c) == <<c.status, c.raw, c.dials, c.timers, c.ends, c.stale, c.ticks>>

\* C15: connect() on a connection or a queue that is Connecting or Connected
\* changes no state, emits no status event and starts no dial and no inner
\* connect attempt.
C15_Step ==
  /\ (act' = "ConnConnect" /\ conn.status \in {Connecting, Connected})
       => /\ ConnCore(conn') = ConnCore(conn)
          /\ conn'.emitted = <<>>
          /\ \A i \in 1..Len(qs) :
               QueueCore(qs'[i]) = QueueCore(qs[i]) /\ qs'[i].emitted = <<>>
  /\ \A i \in 1..Len(qs) :
       (act' = "QConnect" /\ qs[i].status \in {Connecting, Connected})
         => /\ QueueCore(qs'[i]) = QueueCore(qs[i])
            /\ qs'[i].emitted = <<>>
            /\ ~qs'[i].threw
            /\ ConnCore(conn') = ConnCore(conn)

C15_ConnectIsNoOp == [][C15_Step]_vars

\* connect() was called on a Connected queue of a Connected connection.
C15_Witness ==
  /\ act = "QConnect"
  /\ qs[1].status = Connected
  /\ conn.status = Connected

(***************************************************************************)
(* Further claims about the connection (checked under SpecConn).           *)
(***************************************************************************)
\* C16: close() on a connection that is already Closing or Closed, also
\* while an earlier close() is still in progress, emits no status event,
\* leaves the status as it is and starts no second close of the raw
\* connection; its callback is scheduled or pending, once.
C16_Step ==
  (act' = "ConnClose" /\ conn.status \in {Closing, Closed})
    => /\ conn'.emitted = <<>>
       /\ conn'.status = conn.status
       /\ conn'.ends = conn.ends
       /\ conn'.ticks - conn.ticks = conn'.owed - conn.owed

C16_CloseAgainIsQuiet == [][C16_Step]_vars

(***************************************************************************)
(* One manager with the faults of the broker: the transport is lost, a     *)
(* channel is closed by the broker, the set-up of a queue fails.           *)
(***************************************************************************)
MgrQInnerConnectFail(i) ==
  /\ \A j \in 1..(i - 1) : qs[j].attempts = 0
  /\ QInnerConnectDone(i, FALSE)

NextMgrLoss ==
  \/ MgrNew(1)
  \/ MgrClose(1)
  \/ MgrCloseNext(1)
  \/ MgrCloseAbort(1)
  \/ MgrRemoveConnection(1)
  \/ MgrClosed(1)
  \/ \E ok \in BOOLEAN : ConnDialDone(ok)
  \/ ConnRetry
  \/ ConnRawClose
  \/ ConnRawConnect
  \/ ConnRawReconnect
  \/ ConnCloseDone
  \/ \E i \in 1..Len(qs) : MgrQInnerConnectDone(i)
  \/ \E i \in 1..Len(qs) : MgrQInnerConnectFail(i)
  \/ \E i \in 1..Len(qs) : MgrQRetry(i)
  \/ \E i \in 1..Len(qs), err \in BOOLEAN : MgrQCloseDone(i, err)
  \/ \E i \in 1..Len(qs) : QChannelClose(i)

SpecMgrLoss == InitMgr /\ [][NextMgrLoss]_vars

(***************************************************************************)
(* Further claims about the managers.                                      *)
(***************************************************************************)
\* The status events manager m emits in a step differ from the one before:
\* the first from the status it had, every other from its predecessor, and
\* the status it is left with is the last one emitted.
Alternates(m) ==
  LET ev == mgrs'[m].emitted
  IN /\ \A k \in 1..Len(ev) :
          ev[k] # (IF k = 1 THEN mgrs[m].status ELSE ev[k - 1])
     /\ mgrs'[m].status = (IF ev = <<>> THEN mgrs[m].status ELSE ev[Len(ev)])

\* An owned queue of manager m leaves Connected in the step.
QueueLeft(m) ==
  \E k \in 1..Len(mgrs[m].queues) :
    /\ qs[mgrs[m].queues[k]].status = Connected
    /\ qs'[mgrs[m].queues[k]].status # Connected

\* C17 (checked under SpecMgrLoss): a manager emits a status event only when
\* its aggregated status changes, so that the events alternate Ready,
\* NotReady, Ready, ... starting with Ready (a manager not yet constructed is
\* NotReady), and a Ready manager that stays open emits NotReady in the step
\* in which one of its queues leaves Connected.
C17_Step ==
  \A m \in 1..Len(mgrs) :
    /\ mgrs[m].state = "none" => mgrs[m].status = NotReady
    /\ Alternates(m)
    /\ ( /\ mgrs[m].state = "open"
         /\ mgrs'[m].state = "open"
         /\ mgrs[m].status = Ready
         /\ QueueLeft(m) )
       => (mgrs'[m].emitted # <<>> /\ mgrs'[m].emitted[1] = NotReady)

C17_EmitsOnChangeOnly == [][C17_Step]_vars

\* An open manager has just emitted NotReady: it was Ready and one of its
\* queues is no longer Connected.
C17_Witness ==
  \E m \in 1..Len(mgrs) :
    /\ mgrs[m].state = "open"
    /\ mgrs[m].emitted = <<NotReady>>
    /\ ~AllConnected(m)
    /\ act \in {"ConnRawClose", "QChannelClose"}

\* The managers that were constructed.
Constructed == {m \in 1..Len(mgrs) : mgrs[m].state # "none"}

\* close() of manager m has called back with no error.
MgrIsClosed(m) == mgrs[m].state = "closed" /\ ~mgrs[m].failed

PoolCount == IF pool.present THEN pool.count ELSE 0

\* C19 (checked under SpecMgr): when no close() is in progress and none has
\* failed, the reference count of the pool entry is 4 times the number of
\* managers constructed on the URI on which close() was never called,
\* however many times close() was called on the others.
C19_CountIsFourPerOpenManager ==
  (\A m \in Constructed : mgrs[m].state # "closing" /\ ~mgrs[m].failed)
    => PoolCount = 4 * Cardinality({m \in Constructed : mgrs[m].calls = 0})

\* C20 (checked under SpecMgr): close(cb) closes the four queues one after
\* another, calls removeConnection and calls cb once; when cb is called,
\* with an error or not, close() was called on each of the four queues and
\* removeConnection was called.
C20_Step ==
  \A m \in 1..Len(mgrs) :
    /\ mgrs'[m].done <= mgrs'[m].calls
    /\ (mgrs'[m].state = "closing" /\ mgrs'[m].calls = 1)
         => \A k \in 1..4 : k > mgrs'[m].pc => qs'[mgrs'[m].queues[k]].mgrL
    /\ mgrs'[m].done = mgrs[m].done + 1
         => /\ mgrs'[m].done = mgrs'[m].calls
            /\ \A k \in 1..4 : ~qs'[mgrs'[m].queues[k]].mgrL
            /\ mgrs'[m].released = mgrs'[m].calls

C20_CloseReleasesAfterError == [][C20_Step]_vars

(***************************************************************************)
(* One queue with two listeners of its status events.  The first listener  *)
(* may call close() or connect() on the queue from inside its handler.     *)
(*   order : the status events of the last step in the order in which the  *)
(*           status changed                                                *)
(*   got   : the events of the last step as each listener received them    *)
(***************************************************************************)
\* EventEmitter.emit(ev) when the first listener makes a call that emits
\* nested before it returns: emit() is synchronous, so the nested events
\* reach both listeners before ev reaches the second one.
EventEmitter_emit(ev, nested) ==
  [ order |-> <<ev>> \o nested,
    got |-> << <<ev>> \o nested, nested \o <<ev>> >> ]

\* The set-up of the queue succeeds and the first listener calls close()
\* from its handler of Connected, the last statement of the callback.
QConnectedThenClose(i) ==
  /\ qs[i].attempts > 0
  /\ qs[i].live
  /\ LET r1 == Queue_innerConnectDone(FreshQ(qs)[i], TRUE)
         r2 == Queue_close([r1 EXCEPT !.closeReq = TRUE], Fresh(conn), FALSE)
     IN /\ r1.emitted = <<Connected>>
        /\ QueueStepHeard(i, r2, "QConnectedThenClose",
                          EventEmitter_emit(Connected, Drop(r2.emitted, 1)))

\* The close of the queue completes and the first listener calls connect()
\* from its handler of Closed; scheduling the callback of close() is all
\* that follows the emit.
QClosedThenConnect(i, err) ==
  /\ qs[i].closes # <<>>
  /\ LET r1 == Queue_closeDone(FreshQ(qs)[i], err)
         r2 == Queue_connect([r1 EXCEPT !.closeReq = FALSE], Fresh(conn))
     IN /\ r1.emitted = <<Closed>>
        /\ QueueStepHeard(i, r2, "QClosedThenConnect",
                          EventEmitter_emit(Closed, Drop(r2.emitted, 1)))

InitEmit ==
  /\ \E e \in Engines, r \in BOOLEAN :
       /\ conn = NewConnection(e)
       /\ qs = <<NewQueue(e, r, 0)>>
  /\ mgrs = <<>>
  /\ pool = NoPool
  /\ msgs = <<>>
  /\ lsn = [order |-> <<>>, got |-> << <<>>, <<>> >>]
  /\ NoOthers
  /\ act = "Init"

NextEmit ==
  \/ NextQueue
  \/ QConnectedThenClose(1)
  \/ \E err \in BOOLEAN : QClosedThenConnect(1, err)

SpecEmit == InitEmit /\ [][NextEmit]_vars

\* C21 (checked under SpecEmit): every listener of the status events of a
\* queue receives the events of a step in the order in which the status
\* changed, also when another listener calls close() or connect() from
\* inside its handler.
C21_ListenersSeeStatusOrder ==
  \A k \in 1..Len(lsn.got) : lsn.got[k] = lsn.order

(***************************************************************************)
(* Data: one sender and the receivers of one queue name, and the broker.   *)
(* The sender stays Connected; a receiver is up when its queue is          *)
(* Connected.  The broker is the environment: an AMQP queue hands each     *)
(* message to one consumer and requeues what a closed channel left         *)
(* unacknowledged, a fanout exchange copies a message to every bound queue, *)
(* an MQTT broker sends a message once to every subscribed client, or to   *)
(* one client of a shared subscription.                                    *)
(*   engine, broadcast, reliable : the options of the queues               *)
(*   shared : the MQTT receivers were constructed on one MqttConnection    *)
(*   up     : the receiver is Connected                                    *)
(*   hnd    : per MqttConnection, the receiver whose handler               *)
(*            #packetHandlers holds for the queue name (0: none)           *)
(*   sub    : per MqttConnection, the client is subscribed to the topic    *)
(*   inbox  : per MqttConnection, the messages sent to the client          *)
(*   ready  : the messages of the AMQP queue of the name                   *)
(*   tmp    : per receiver, the messages of its exclusive AMQP queue       *)
(*   tags   : per receiver, the deliveries of its channel                  *)
(*   unacked: per receiver, the <<tag, message>> deliveries of its channel *)
(*            that are not settled                                         *)
(*   held   : per receiver, the <<tag, message>> its handler received and  *)
(*            has not settled                                              *)
(*   got    : per receiver, the messages its handler received              *)
(*   sent   : the number of sendMsg() calls                                *)
(*   info   : per message, ok: the callback of sendMsg had no error;       *)
(*            calm: every receiver was up and nothing was lost; down: no   *)
(*            receiver was up; acked: the receivers that settled it with   *)
(*            ack(); nacks: the number of nack() calls for it              *)
(*   closes, nacks : the number of close() and nack() calls                *)
(*   last   : the error of the callback of the last ack() or nack()        *)
(***************************************************************************)
MaxRecv == 3          \* receivers of the queue name
MaxPub == 2           \* sendMsg() calls
MaxRecvCloses == 1    \* close() calls of receivers
MaxNacks == 1         \* nack() calls
Prefetch == 1         \* opts.prefetch of the receivers

Receivers == 1..MaxRecv

NoInfo == [ok |-> FALSE, calm |-> FALSE, down |-> FALSE, acked |-> {},
           nacks |-> 0]

NewBroker(engine, broadcast, reliable, shared) ==
  [ engine |-> engine, broadcast |-> broadcast, reliable |-> reliable,
    shared |-> shared,
    up |-> [k \in Receivers |-> FALSE],
    hnd |-> [c \in Receivers |-> 0],
    sub |-> [c \in Receivers |-> FALSE],
    inbox |-> [c \in Receivers |-> <<>>],
    ready |-> <<>>,
    tmp |-> [k \in Receivers |-> <<>>],
    tags |-> [k \in Receivers |-> 0],
    unacked |-> [k \in Receivers |-> {}],
    held |-> [k \in Receivers |-> {}],
    got |-> [k \in Receivers |-> <<>>],
    sent |-> 0,
    info |-> [id \in 1..MaxPub |-> NoInfo],
    closes |-> 0, nacks |-> 0, last |-> "none" ]

\* The MqttConnection of receiver k.
ConnOf(b, k) == IF b.shared THEN 1 ELSE k

\* The messages of a set of deliveries, in the order of publication.
RECURSIVE InOrder(_)
InOrder(ds) ==
  IF ds = {} THEN <<>>
  ELSE LET d == CHOOSE x \in ds : \A y \in ds : x[2] <= y[2]
       IN <<d[2]>> \o InOrder(ds \ {d})

\* connect() of a receiver, up to Connected.  AMQP: a channel, the queue of
\* the name or an exclusive queue bound to the fanout exchange, and
\* consume().  MQTT: addPacketHandler(name, ...) and subscribe(topic).
Receiver_connect(b, k) ==
  IF b.engine = "amqp"
  THEN [b EXCEPT !.up[k] = TRUE, !.tags[k] = 0, !.tmp[k] = <<>>]
  ELSE [b EXCEPT !.up[k] = TRUE,
                 !.hnd[ConnOf(b, k)] = k,
                 !.sub[ConnOf(b, k)] = TRUE]

\* The channel of receiver k is closed: the broker requeues its unsettled
\* deliveries; an exclusive queue is deleted.
Broker_channelClosed(b, k) ==
  [b EXCEPT !.up[k] = FALSE,
            !.unacked[k] = {},
            !.tmp[k] = <<>>,
            !.ready = IF b.broadcast THEN @ ELSE InOrder(b.unacked[k]) \o @]

\* close() of a receiver, up to Closed.  AMQP: channel.close().  MQTT:
\* unsubscribe(topic) and removePacketHandler(name).
Receiver_close(b, k) ==
  IF b.engine = "amqp"
  THEN Broker_channelClosed(b, k)
  ELSE [b EXCEPT !.up[k] = FALSE,
                 !.hnd[ConnOf(b, k)] = 0,
                 !.sub[ConnOf(b, k)] = FALSE]

\* A variant in which the MQTT receivers of a unicast queue subscribe to the
\* name without the shared prefix.
Broker_route_NoSharedPrefix(b, id, c) ==
  IF b.engine = "amqp"
  THEN IF b.broadcast
       THEN [b EXCEPT !.tmp = [k \in Receivers |->
                                 IF b.up[k] THEN Append(b.tmp[k], id)
                                 ELSE b.tmp[k]]]
       ELSE [b EXCEPT !.ready = Append(@, id)]
  ELSE [b EXCEPT !.inbox = [x \in Receivers |->
                              IF b.sub[x] THEN Append(b.inbox[x], id)
                              ELSE b.inbox[x]]]

\* What the broker does with message id.  AMQP: routingKey name on the
\* default exchange, or the fanout exchange name.  MQTT: publish(name), with
\* the receivers subscribed to name (broadcast) or to sharedPrefix + name,
\* where c is the client the broker picks.
Broker_route(b, id, c) ==
  IF b.engine = "amqp"
  THEN IF b.broadcast
       THEN [b EXCEPT !.tmp = [k \in Receivers |->
                                 IF b.up[k] THEN Append(b.tmp[k], id)
                                 ELSE b.tmp[k]]]
       ELSE [b EXCEPT !.ready = Append(@, id)]
  ELSE IF b.broadcast
       THEN [b EXCEPT !.inbox = [x \in Receivers |->
                                   IF b.sub[x] THEN Append(b.inbox[x], id)
                                   ELSE b.inbox[x]]]
       ELSE IF b.sub[c] THEN [b EXCEPT !.inbox[c] = Append(@, id)] ELSE b

\* A variant of sendMsg that does not wait for the confirmation of the
\* broker.
Sender_sendMsg_NoConfirm(b, lost, c) ==
  LET id == b.sent + 1
      b1 == [b EXCEPT !.sent = id,
                      !.info[id] = [NoInfo EXCEPT
                         !.ok = TRUE,
                         !.calm = ~lost /\ \A k \in Receivers : b.up[k],
                         !.down = \A k \in Receivers : ~b.up[k]]]
  IN IF lost THEN b1 ELSE Broker_route(b1, id, c)

\* sendMsg() of the Connected sender.  A reliable queue reports what the
\* broker confirmed; otherwise the callback has no error whatever became of
\* the message.
Sender_sendMsg(b, lost, c) ==
  LET id == b.sent + 1
      b1 == [b EXCEPT !.sent = id,
                      !.info[id] = [NoInfo EXCEPT
                         !.ok = ~lost \/ ~b.reliable,
                         !.calm = ~lost /\ \A k \in Receivers : b.up[k],
                         !.down = \A k \in Receivers : ~b.up[k]]]
  IN IF lost THEN b1 ELSE Broker_route(b1, id, c)

\* #innerOnMessage of receiver k with message id of delivery tag.
Receiver_onMessage(b, k, tag, id) ==
  [b EXCEPT !.got[k] = Append(@, id),
            !.held[k] = @ \union {<<tag, id>>}]

\* The broker delivers the first message of the queue that receiver k
\* consumes.
Broker_deliver(b, k) ==
  LET id == IF b.broadcast THEN Head(b.tmp[k]) ELSE Head(b.ready)
      tag == b.tags[k] + 1
      b1 == [b EXCEPT !.tags[k] = tag,
                      !.unacked[k] = @ \union {<<tag, id>>},
                      !.tmp[k] = IF b.broadcast THEN Tail(@) ELSE @,
                      !.ready = IF b.broadcast THEN @ ELSE Tail(@)]
  IN Receiver_onMessage(b1, k, tag, id)

\* MqttConnection.#onMessage: the handler is looked up by the topic of the
\* message, the queue name.
MqttConnection_onMessage(b, c) ==
  LET id == Head(b.inbox[c])
      b1 == [b EXCEPT !.inbox[c] = Tail(@)]
  IN IF b.hnd[c] = 0 THEN b1 ELSE Receiver_onMessage(b1, b.hnd[c], 0, id)

\* The deliveries of the channel of receiver k that have the tag.
Tagged(b, k, tag) == {d \in b.unacked[k] : d[1] = tag}

\* ack(msg): channel.ack(msg.meta) when the queue has a channel, and the
\* callback with no error.  An unknown delivery tag is a channel error.
\* MqttQueue.ack only calls back.
Queue_ack(b, k, d) ==
  LET b1 == [b EXCEPT !.held[k] = @ \ {d},
                      !.info[d[2]].acked = @ \union {k},
                      !.last = "null"]
  IN IF b.engine = "mqtt" \/ ~b.up[k] THEN b1
     ELSE IF Tagged(b, k, d[1]) = {} THEN Broker_channelClosed(b1, k)
     ELSE [b1 EXCEPT !.unacked[k] = @ \ Tagged(b, k, d[1])]

\* A variant of nack whose MQTT branch gives the message back to the broker.
Queue_nack_Requeue(b, k, d) ==
  LET b1 == [b EXCEPT !.held[k] = @ \ {d},
                      !.info[d[2]].nacks = @ + 1,
                      !.nacks = @ + 1,
                      !.last = "null"]
  IN IF b.engine = "mqtt"
     THEN [b1 EXCEPT !.inbox[ConnOf(b, k)] = <<d[2]>> \o @]
     ELSE b1

\* nack(msg): channel.nack(msg.meta), which requeues the delivery, when the
\* queue has a channel, and the callback with no error.  MqttQueue.nack only
\* calls back.
Queue_nack(b, k, d) ==
  LET b1 == [b EXCEPT !.held[k] = @ \ {d},
                      !.info[d[2]].nacks = @ + 1,
                      !.nacks = @ + 1,
                      !.last = "null"]
      t == Tagged(b, k, d[1])
  IN IF b.engine = "mqtt" \/ ~b.up[k] THEN b1
     ELSE IF t = {} THEN Broker_channelClosed(b1, k)
     ELSE [b1 EXCEPT !.unacked[k] = @ \ t,
                     !.tmp[k] = IF b.broadcast THEN InOrder(t) \o @ ELSE @,
                     !.ready = IF b.broadcast THEN @ ELSE InOrder(t) \o @]

DataStep(b, label) ==
  /\ broker' = b
  /\ act' = label
  /\ UNCHANGED <<conn, qs, mgrs, pool, msgs, lsn, calls>>

RecvConnect(k) ==
  /\ ~broker.up[k]
  /\ DataStep(Receiver_connect(broker, k), "RecvConnect")

RecvClose(k) ==
  /\ broker.up[k]
  /\ broker.closes < MaxRecvCloses
  /\ DataStep([Receiver_close(broker, k) EXCEPT !.closes = @ + 1], "RecvClose")

\* The client c that the broker picks for a shared subscription is one of
\* the subscribed clients.
SendMsg(lost, c) ==
  /\ broker.sent < MaxPub
  /\ IF broker.engine = "mqtt" /\ ~broker.broadcast /\ ~lost
        /\ \E x \in Receivers : broker.sub[x]
     THEN broker.sub[c]
     ELSE c = 1
  /\ DataStep(Sender_sendMsg(broker, lost, c), "SendMsg")

BrokerDeliver(k) ==
  /\ broker.engine = "amqp"
  /\ broker.up[k]
  /\ Cardinality(broker.unacked[k]) < Prefetch
  /\ (IF broker.broadcast THEN broker.tmp[k] ELSE broker.ready) # <<>>
  /\ DataStep(Broker_deliver(broker, k), "BrokerDeliver")

ClientMessage(c) ==
  /\ broker.engine = "mqtt"
  /\ broker.inbox[c] # <<>>
  /\ DataStep(MqttConnection_onMessage(broker, c), "ClientMessage")

Ack(k) ==
  \E d \in broker.held[k] : DataStep(Queue_ack(broker, k, d), "Ack")

Nack(k) ==
  /\ broker.nacks < MaxNacks
  /\ \E d \in broker.held[k] : DataStep(Queue_nack(broker, k, d), "Nack")

InitData ==
  /\ \E e \in Engines, bc \in BOOLEAN, rel \in BOOLEAN, sh \in BOOLEAN :
       /\ sh => e = "mqtt"
       /\ broker = NewBroker(e, bc, rel, sh)
  /\ \E e \in Engines : conn = NewConnection(e)
  /\ conn.engine = broker.engine
  /\ qs = <<>>
  /\ mgrs = <<>>
  /\ pool = NoPool
  /\ msgs = <<>>
  /\ lsn = <<>>
  /\ NoCalls
  /\ act = "Init"

NextData ==
  \/ \E k \in Receivers : RecvConnect(k)
  \/ \E k \in Receivers : RecvClose(k)
  \/ \E lost \in BOOLEAN, c \in Receivers : SendMsg(lost, c)
  \/ \E k \in Receivers : BrokerDeliver(k)
  \/ \E c \in Receivers : ClientMessage(c)
  \/ \E k \in Receivers : Ack(k)
  \/ \E k \in Receivers : Nack(k)

SpecData == InitData /\ [][NextData]_vars

(***************************************************************************)
(* Claims about the data (checked under SpecData).                         *)
(***************************************************************************)
\* The number of times id is in the sequence.
Occ(seq, id) == Cardinality({i \in 1..Len(seq) : seq[i] = id})

RECURSIVE Total(_, _)
Total(k, id) ==
  IF k = 0 THEN 0 ELSE Occ(broker.got[k], id) + Total(k - 1, id)

\* No receiver was closed and no message was given back.
Steady == broker.closes = 0 /\ broker.nacks = 0

\* Message id is on its way to receiver k.
InFlightTo(k, id) ==
  \/ Occ(broker.tmp[k], id) > 0
  \/ Occ(broker.inbox[ConnOf(broker, k)], id) > 0

InFlight(id) ==
  \/ Occ(broker.ready, id) > 0
  \/ \E k \in Receivers : InFlightTo(k, id)

C23_BroadcastToEach ==
  (broker.broadcast /\ Steady)
    => \A id \in 1..broker.sent :
         broker.info[id].calm
           => \A k \in Receivers :
                /\ Occ(broker.got[k], id) <= 1
                /\ ~InFlightTo(k, id) => Occ(broker.got[k], id) = 1

(***************************************************************************)
(* A reliable AMQP unicast queue.  A receiver that is closed is connected  *)
(* again, the broker delivers what it has for a consumer that may take it, *)
(* and a handler settles what it received.                                 *)
(***************************************************************************)
InitReliable ==
  /\ broker = NewBroker("amqp", FALSE, TRUE, FALSE)
  /\ conn = NewConnection("amqp")
  /\ qs = <<>>
  /\ mgrs = <<>>
  /\ pool = NoPool
  /\ msgs = <<>>
  /\ lsn = <<>>
  /\ NoCalls
  /\ act = "Init"

NextReliable ==
  \/ \E k \in Receivers : RecvConnect(k)
  \/ \E k \in Receivers : RecvClose(k)
  \/ \E lost \in BOOLEAN : SendMsg(lost, 1)
  \/ \E k \in Receivers : BrokerDeliver(k)
  \/ \E k \in Receivers : Ack(k)
  \/ \E k \in Receivers : Nack(k)

SpecReliable ==
  /\ InitReliable
  /\ [][NextReliable]_vars
  /\ WF_vars(\E k \in Receivers : RecvConnect(k))
  /\ WF_vars(\E k \in Receivers : BrokerDeliver(k))
  /\ WF_vars(\E k \in Receivers : Ack(k))

\* C24 (checked under SpecReliable): a message whose sendMsg() succeeded
\* while no receiver was up is received once a receiver is connected again,
\* and what a receiver receives is added after what it had received.
C24_ReliableIsDelivered ==
  /\ \A id \in 1..MaxPub :
       (broker.info[id].ok /\ broker.info[id].down)
         ~> (Total(MaxRecv, id) >= 1)
  /\ [][\A k \in Receivers :
          /\ Len(broker.got[k]) <= Len(broker'.got[k])
          /\ \A i \in 1..Len(broker.got[k]) :
               broker'.got[k][i] = broker.got[k][i]]_vars

\* A receiver received a message, was closed, and after it was connected
\* again it received the message published while it was closed.
C24_Witness ==
  /\ broker.closes = 1
  /\ broker.info[2].ok /\ broker.info[2].down
  /\ \E k \in Receivers : broker.got[k] = <<1, 2>>

\* The queue from which the broker delivers to receiver k.
QueueOf(b, k) == IF b.broadcast THEN b.tmp[k] ELSE b.ready

\* C25 (checked under SpecData): on AMQP a message that a Connected receiver
\* settles with nack is given back to the queue, from which it is delivered
\* again, and a message that was settled with ack is not delivered again.
C25_Step ==
  broker.engine = "amqp"
    => /\ \A k \in Receivers : \A d \in broker.held[k] :
            ( /\ act' = "Nack"
              /\ broker'.held[k] = broker.held[k] \ {d}
              /\ broker.up[k]
              /\ d \in broker.unacked[k] )
            => /\ QueueOf(broker', k) # <<>>
               /\ Head(QueueOf(broker', k)) = d[2]
       /\ \A k \in Receivers :
            (act' = "BrokerDeliver" /\ broker'.got[k] # broker.got[k])
              => LET by == broker.info[broker'.got[k][Len(broker'.got[k])]].acked
                 IN IF broker.broadcast THEN k \notin by ELSE by = {}

C25_NackRedeliversAckSettles == [][C25_Step]_vars

\* C26 (checked under SpecData): ack() and nack() of an MqttQueue change
\* nothing at the broker, in the connection or in the queue and call back
\* with no error, and no receiver receives a message of an MQTT queue twice,
\* whether it was settled with nack or not.
C26_Step ==
  broker.engine = "mqtt"
    => /\ act' \in {"Ack", "Nack"}
            => /\ broker'.up = broker.up
               /\ broker'.hnd = broker.hnd
               /\ broker'.sub = broker.sub
               /\ broker'.inbox = broker.inbox
               /\ broker'.got = broker.got
               /\ broker'.last = "null"
               /\ conn' = conn
       /\ \A k \in Receivers : \A id \in 1..MaxPub :
            Occ(broker'.got[k], id) <= 1
       /\ ~broker.broadcast => \A id \in 1..MaxPub : Total(MaxRecv, id) <= 1

C26_MqttSettleIsNoOp == [][C26_Step]_vars

\* An MQTT receiver has just settled with nack a message it received.
C26_Witness ==
  /\ broker.engine = "mqtt"
  /\ act = "Nack"
  /\ broker.last = "null"
  /\ \E id \in 1..MaxPub : broker.info[id].nacks = 1 /\ Total(MaxRecv, id) = 1
(***************************************************************************)
(* Functions that validate their arguments.  A JavaScript value is a       *)
(* record of its type t and, for a string, its length v, for a number, its *)
(* integer part v and whether it has a fraction, for a boolean, 1 or 0.    *)
(***************************************************************************)
Js(t, v) == [t |-> t, v |-> v, frac |-> FALSE]

Undefined == Js("undefined", 0)

\* typeof x
typeof(x) ==
  IF x.t \in {"null", "array", "buffer"} THEN "object" ELSE x.t

\* The value of x where the language takes a boolean (!x is ~Truthy(x)).
Truthy(x) ==
  CASE x.t \in {"undefined", "null"} -> FALSE
    [] x.t = "string" -> x.v > 0
    [] x.t = "number" -> x.v # 0 \/ x.frac
    [] x.t = "boolean" -> x.v = 1
    [] OTHER -> TRUE

\* x || undefined
OrUndefined(x) == IF Truthy(x) THEN x ELSE Undefined

\* x is undefined or a string.
OptString(x) == x = Undefined \/ typeof(x) = "string"

\* Number.isInteger(x)
Number_isInteger(x) == x.t = "number" /\ ~x.frac

\* The outcome of a call: what it threw, and what it handed on.
Outcome(thrown, passed) == [thrown |-> thrown, passed |-> passed]

Throw(kind) == Outcome(kind, <<>>)

\* ApplicationMgr.sendDlData(data, callback) for a data that is an object:
\* the checks in the order of the code, then the record that is serialised
\* and handed to sendMsg of the dldata queue.  The identifier ErrParamCorrId
\* of the first check is bound nowhere in the file, so that evaluating the
\* argument of Error() throws a ReferenceError.
ApplicationMgr_sendDlData(data) ==
  IF ~Truthy(data.correlationId) \/ typeof(data.correlationId) # "string"
    THEN Throw("ReferenceError")
  ELSE IF ~OptString(data.deviceId) THEN Throw("Error")
  ELSE IF ~OptString(data.networkCode) THEN Throw("Error")
  ELSE IF ~OptString(data.networkAddr) THEN Throw("Error")
  ELSE IF data.data.t # "buffer" THEN Throw("Error")
  ELSE IF /\ data.extension # Undefined
          /\ \/ ~Truthy(data.extension)
             \/ typeof(data.extension) # "object"
             \/ data.extension.t = "array"
    THEN Throw("Error")
  ELSE IF /\ ~Truthy(data.deviceId)
          /\ \/ Truthy(data.networkCode) /\ ~Truthy(data.networkAddr)
             \/ ~Truthy(data.networkCode) /\ Truthy(data.networkAddr)
    THEN Throw("Error")
  ELSE Outcome("none",
               << [correlationId |-> data.correlationId,
                   deviceId |-> OrUndefined(data.deviceId),
                   networkCode |-> OrUndefined(data.networkCode),
                   networkAddr |-> OrUndefined(data.networkAddr),
                   data |-> Js("string", 2 * data.data.v),
                   extension |-> OrUndefined(data.extension)] >>)

DEF_PREFETCH == 100
DEF_PERSISTENT == Js("boolean", 0)

\* newDataQueues(conn, opts, prefix, isNetwork) for a pooled connection, an
\* opts that is an object, a prefix and a boolean: the checks of the fields
\* of opts in the order of the code, then the options with which every
\* queue of the manager is constructed.
newDataQueues_opts(opts) ==
  IF ~OptString(opts.unitId) THEN Throw("Error")
  ELSE IF ~OptString(opts.unitCode) THEN Throw("Error")
  ELSE IF ~Truthy(opts.id) \/ typeof(opts.id) # "string" THEN Throw("Error")
  ELSE IF ~Truthy(opts.name) \/ typeof(opts.name) # "string"
    THEN Throw("Error")
  ELSE IF /\ opts.prefetch # Undefined
          /\ \/ ~Number_isInteger(opts.prefetch)
             \/ opts.prefetch.v < 0
             \/ opts.prefetch.v > 65535
    THEN Throw("Error")
  ELSE IF opts.persistent # Undefined /\ typeof(opts.persistent) # "boolean"
    THEN Throw("Error")
  ELSE IF \/ Truthy(opts.unitId) /\ ~Truthy(opts.unitCode)
          \/ ~Truthy(opts.unitId) /\ Truthy(opts.unitCode)
    THEN Throw("Error")
  ELSE Outcome("none",
               << [reliable |-> TRUE,
                   broadcast |-> FALSE,
                   prefetch |-> IF Truthy(opts.prefetch)
                                  THEN opts.prefetch
                                  ELSE Js("number", DEF_PREFETCH),
                   persistent |-> IF Truthy(opts.persistent)
                                    THEN opts.persistent
                                    ELSE DEF_PERSISTENT] >>)

\* The arguments of the calls.
Strings == {Undefined, Js("string", 0), Js("string", 1), Js("number", 1)}
Names == {Js("string", 0), Js("string", 1)}
Buffers == {Js("buffer", 0), Js("buffer", 1), Js("array", 0)}
Extensions == {Undefined, Js("null", 0), Js("object", 0), Js("array", 0)}
Flags == {Undefined, Js("boolean", 0), Js("boolean", 1), Js("number", 0)}
Prefetches ==
  {Undefined, Js("string", 1), [t |-> "number", v |-> 1, frac |-> TRUE]}
    \cup {Js("number", n) : n \in {-1, 0, 1, 65535, 65536}}

DlDatas ==
  [correlationId : Strings, deviceId : Strings, networkCode : Strings,
   networkAddr : Strings, data : Buffers, extension : Extensions]

MgrOptions ==
  [unitId : Strings, unitCode : Strings, id : Names, name : Names,
   prefetch : Prefetches, persistent : Flags]

CallStep(out, label) ==
  /\ call.out = <<>>
  /\ call' = [call EXCEPT !.out = <<out>>]
  /\ act' = label
  /\ UNCHANGED <<conn, qs, mgrs, pool, msgs, lsn, broker, http>>

SendDlData ==
  /\ call.fn = "sendDlData"
  /\ CallStep(ApplicationMgr_sendDlData(call.arg), "SendDlData")

NewDataQueues ==
  /\ call.fn = "newDataQueues"
  /\ CallStep(newDataQueues_opts(call.arg), "NewDataQueues")

InitCall ==
  /\ \/ \E d \in DlDatas : call = [fn |-> "sendDlData", arg |-> d, out |-> <<>>]
     \/ \E o \in MgrOptions :
          call = [fn |-> "newDataQueues", arg |-> o, out |-> <<>>]
  /\ conn = NewConnection("amqp")
  /\ qs = <<>>
  /\ mgrs = <<>>
  /\ pool = NoPool
  /\ msgs = <<>>
  /\ lsn = <<>>
  /\ broker = <<>>
  /\ http = <<>>
  /\ act = "Init"

NextCall == SendDlData \/ NewDataQueues

SpecCall == InitCall /\ [][NextCall]_vars

\* A non-empty string.
NonEmpty(x) == x.t = "string" /\ x.v > 0

\* C27 (checked under SpecCall): sendDlData hands a record on to the dldata
\* queue exactly when the record has a non-empty correlationId, a Buffer as
\* data, and exactly one form of address: a non-empty deviceId and neither
\* networkCode nor networkAddr, or a non-empty networkCode and a non-empty
\* networkAddr and no deviceId; every other record, one with no field of
\* address included, makes it throw an Error and hand on nothing.
C27_SendDlDataAcceptsExactlyValid ==
  (call # <<>> /\ call.fn = "sendDlData" /\ call.out # <<>>)
    => LET d == call.arg
           o == call.out[1]
           byDevice == /\ NonEmpty(d.deviceId)
                       /\ ~Truthy(d.networkCode)
                       /\ ~Truthy(d.networkAddr)
                       /\ OptString(d.networkCode)
                       /\ OptString(d.networkAddr)
           byNetwork == /\ NonEmpty(d.networkCode)
                        /\ NonEmpty(d.networkAddr)
                        /\ ~Truthy(d.deviceId)
                        /\ OptString(d.deviceId)
           valid == /\ NonEmpty(d.correlationId)
                    /\ d.data.t = "buffer"
                    /\ d.extension = Undefined \/ d.extension.t = "object"
                    /\ byDevice \/ byNetwork
       IN IF valid
            THEN o.thrown = "none" /\ Len(o.passed) = 1
            ELSE o.thrown = "Error" /\ o.passed = <<>>

\* C28 (checked under SpecCall): the construction of a manager with a
\* prefetch that is given and is not an integer between 1 and 65535, 0 in
\* particular, throws an Error and constructs no queue; no queue is
\* constructed with the default in the place of a prefetch of 0.
C28_PrefetchOutOfRangeThrows ==
  (call # <<>> /\ call.fn = "newDataQueues" /\ call.out # <<>>)
    => LET p == call.arg.prefetch
           o == call.out[1]
       IN /\ (p # Undefined
               /\ ~(Number_isInteger(p) /\ p.v >= 1 /\ p.v <= 65535))
              => o.thrown = "Error" /\ o.passed = <<>>
          /\ p = Js("number", 0) => o.passed = <<>>
(***************************************************************************)
(* The HTTP client.  Client.request starts innerRequest, which asks for a  *)
(* token when the client holds none and otherwise sends the API request    *)
(* with the token it holds; the two replies arrive later.  One request is  *)
(* executed at a time.  A token is a positive number, 0 is the absence of  *)
(* a token (a client just constructed).                                    *)
(***************************************************************************)
MaxRequests == 3

Statuses == {200, 401, 404, 500}

NewClient ==
  [accessToken |-> 0,   \* #accessToken
   pc |-> "idle",       \* what the request waits for: "auth", "api" or nothing
   requests |-> 0,      \* the calls of request() so far
   issued |-> 0,        \* the tokens the auth service issued so far
   retry |-> 1,
   retStatus |-> 0,
   attempts |-> <<>>,   \* the API requests sent for the call: token, answer
   fetches |-> <<>>,    \* the token requests sent for the call
   cbs |-> <<>>]        \* the calls of the caller's callback

\* callback(...)
Client_callback(h, res) == [h EXCEPT !.pc = "idle", !.cbs = Append(@, res)]

\* innerRequest()
Client_innerRequest(h) ==
  IF h.retry < 0
    THEN Client_callback(h, [err |-> FALSE, status |-> h.retStatus])
  ELSE IF h.accessToken = 0
    THEN [h EXCEPT !.pc = "auth",
                   !.fetches = Append(@, [after |-> Len(h.attempts), token |-> 0])]
  ELSE [h EXCEPT !.pc = "api",
                 !.attempts = Append(@, [token |-> h.accessToken, status |-> 0])]

\* request(method, apiPath, body, callback) with valid arguments
Client_request(h) ==
  Client_innerRequest([h EXCEPT !.requests = @ + 1,
                                !.retry = 1,
                                !.retStatus = 0,
                                !.attempts = <<>>,
                                !.fetches = <<>>,
                                !.cbs = <<>>])

\* The callback given to #authToken, in both places: ok is whether the
\* auth service answered 200, token is the access_token of its answer.
Client_onToken(h, ok, token) ==
  LET n == Len(h.fetches)
      h1 == [h EXCEPT !.fetches[n].token = IF ok THEN token ELSE 0]
  IN IF ~ok THEN Client_callback(h1, [err |-> TRUE, status |-> 0])
     ELSE Client_innerRequest([h1 EXCEPT !.accessToken = token,
                                         !.retry = @ - 1])

\* The callback given to end() of the API request: status is 0 when there
\* is no response.
Client_onResponse(h, status) ==
  LET n == Len(h.attempts)
      h1 == [h EXCEPT !.attempts[n].status = status]
  IN IF status = 0 THEN Client_callback(h1, [err |-> TRUE, status |-> 0])
     ELSE IF status = 401
       THEN [h1 EXCEPT !.retStatus = status,
                       !.pc = "auth",
                       !.fetches = Append(@, [after |-> n, token |-> 0])]
     ELSE Client_callback([h1 EXCEPT !.retStatus = status],
                          [err |-> FALSE, status |-> status])

HttpStep(h, label) ==
  /\ http' = h
  /\ act' = label
  /\ UNCHANGED <<conn, qs, mgrs, pool, msgs, lsn, broker, call>>

Request ==
  /\ http.pc = "idle"
  /\ http.requests < MaxRequests
  /\ HttpStep(Client_request(http), "Request")

\* The auth service answers: an error, an answer other than 200 or no
\* answer, or 200 with a new token.
TokenReply ==
  /\ http.pc = "auth"
  /\ \/ HttpStep(Client_onToken(http, FALSE, 0), "TokenReply")
     \/ HttpStep(Client_onToken([http EXCEPT !.issued = @ + 1], TRUE,
                                http.issued + 1), "TokenReply")

\* The coremgr answers, or the request fails.
ApiReply ==
  /\ http.pc = "api"
  /\ \E status \in Statuses \cup {0} :
       HttpStep(Client_onResponse(http, status), "ApiReply")

InitHttp ==
  /\ http = NewClient
  /\ conn = NewConnection("amqp")
  /\ qs = <<>>
  /\ mgrs = <<>>
  /\ pool = NoPool
  /\ msgs = <<>>
  /\ lsn = <<>>
  /\ broker = <<>>
  /\ call = <<>>
  /\ act = "Init"

NextHttp == Request \/ TokenReply \/ ApiReply

SpecHttp == InitHttp /\ [][NextHttp]_vars

\* C29 (checked under SpecHttp): the callback of a request is called at
\* most once and, when the request is over, exactly once; at most two API
\* requests are sent for it; when the coremgr answered 401 to the first and
\* the client then obtained a new token, whether it held a token before the
\* call or not, a second API request was sent with the new token; and the
\* status given to the callback is the answer to the last API request.
C29_RetriesOnceOn401 ==
  (http # <<>> /\ http.requests > 0)
    => /\ Len(http.cbs) = IF http.pc = "idle" THEN 1 ELSE 0
       /\ Len(http.attempts) <= 2
       /\ http.pc = "idle"
            => /\ \A i \in 1..Len(http.fetches) :
                    LET f == http.fetches[i]
                    IN (f.after = 1 /\ f.token # 0)
                         => /\ Len(http.attempts) = 2
                            /\ http.attempts[2].token = f.token
               /\ ~http.cbs[1].err
                    => /\ http.attempts # <<>>
                       /\ http.cbs[1].status
                            = http.attempts[Len(http.attempts)].status
\* C30 (checked under SpecQueue): connect() called on a queue that is
\* Closing sets it to Connecting (an MQTT sender on a connected connection
\* is Connected at once), and when connect() was called since the last
\* close(), the completion of that close() leaves the status, the channel
\* and the packet handler of the queue as they are.
C30_Step ==
  \A i \in 1..Len(qs) :
    /\ ( /\ act' = "QConnect"
         /\ qs[i].status = Closing
         /\ ~qs'[i].threw )
         => qs'[i].status \in {Connecting, Connected}
    /\ ( /\ act' = "QCloseDone"
         /\ Len(qs'[i].closes) < Len(qs[i].closes)
         /\ ~qs[i].closeReq )
         => /\ qs'[i].status = qs[i].status
            /\ qs'[i].channel = qs[i].channel
            /\ qs'[i].pkt = qs[i].pkt

C30_ConnectDuringClosingWins == [][C30_Step]_vars
\* C31 (checked under SpecQueue): when the channel of a Connected AmqpQueue
\* emits 'error', the queue drops the channel with its listeners, changes
\* to Connecting, emits Connecting and sets a timer that retries the inner
\* connect, as it does when the channel emits 'close'.
C31_Step ==
  \A i \in 1..Len(qs) :
    ( /\ act' = "QChannelError"
      /\ qs[i].engine = "amqp"
      /\ qs[i].channel
      /\ qs[i].status = Connected )
      => /\ ~qs'[i].channel
         /\ qs'[i].status = Connecting
         /\ qs'[i].emitted = <<Connecting>>
         /\ qs'[i].timers = qs[i].timers + 1

C31_ChannelErrorIsChannelClose == [][C31_Step]_vars
\* C32 (checked under SpecQueue): a queue has at most one inner connect
\* attempt (channel set-up or subscribe) whose callback is pending, and a
\* step that starts an attempt leaves the queue Connecting.
C32_Step ==
  \A i \in 1..Len(qs) :
    /\ qs[i].attempts <= 1
    /\ qs'[i].attempts <= 1
    /\ qs'[i].attempts > qs[i].attempts => qs'[i].status = Connecting

C32_OneInnerConnect == [][C32_Step]_vars

\* A queue that is Connecting on a Connected connection has an attempt in
\* flight and a retry timer that will call #innerConnect once more.
C32_Witness ==
  /\ conn.status = Connected
  /\ \E i \in 1..Len(qs) :
       /\ qs[i].status = Connecting
       /\ qs[i].attempts = 1
       /\ qs[i].proc
       /\ qs[i].timers = 1
\* C33 (checked under SpecQueue): while an MQTT receiver queue is
\* Connecting or Connected, the packet-handler map of its connection holds
\* the handler of the queue under the name of the queue.
C33_HandlerRegistered ==
  \A i \in 1..Len(qs) :
    ( /\ qs[i].engine = "mqtt"
      /\ qs[i].isRecv
      /\ qs[i].status \in {Connecting, Connected} )
      => qs[i].pkt
(***************************************************************************)
(* The callback of AmqpQueue.sendMsg.  The call returns after it has       *)
(* scheduled the callback with process.nextTick (the two errors) or        *)
(* setTimeout (unreliable publish), or has handed it to publish() of the   *)
(* confirm channel, which calls it when the broker has confirmed.          *)
(*   inCall : the callbacks invoked before the last call returned          *)
(*   sched  : the callbacks scheduled and not invoked yet                  *)
(*   done   : the callbacks invoked, with the way they were scheduled      *)
(***************************************************************************)
MaxSends == 2

NewSender(status, isRecv, reliable) ==
  [fn |-> "sendMsg", status |-> status, isRecv |-> isRecv,
   reliable |-> reliable, sends |-> 0, inCall |-> <<>>, sched |-> <<>>,
   done |-> <<>>]

\* Mutant: the callback of an unreliable publish is called before sendMsg
\* returns.
AmqpQueue_sendMsg_NoYield(s) ==
  LET s1 == [s EXCEPT !.sends = @ + 1, !.inCall = <<>>]
  IN IF s.status # Connected
       THEN [s1 EXCEPT !.sched =
               Append(@, [via |-> "nextTick", err |-> "NotConnected"])]
     ELSE IF s.isRecv
       THEN [s1 EXCEPT !.sched =
               Append(@, [via |-> "nextTick", err |-> "QueueIsReceiver"])]
     ELSE IF s.reliable
       THEN [s1 EXCEPT !.sched = Append(@, [via |-> "confirm", err |-> "null"])]
     ELSE [s1 EXCEPT !.inCall = <<[via |-> "call", err |-> "null"]>>,
                     !.done = Append(@, [via |-> "call", err |-> "null"])]

\* AmqpQueue.sendMsg(payload, callback) with a Buffer and a function.
AmqpQueue_sendMsg(s) ==
  LET s1 == [s EXCEPT !.sends = @ + 1, !.inCall = <<>>]
  IN IF s.status # Connected
       THEN [s1 EXCEPT !.sched =
               Append(@, [via |-> "nextTick", err |-> "NotConnected"])]
     ELSE IF s.isRecv
       THEN [s1 EXCEPT !.sched =
               Append(@, [via |-> "nextTick", err |-> "QueueIsReceiver"])]
     ELSE IF s.reliable
       THEN [s1 EXCEPT !.sched = Append(@, [via |-> "confirm", err |-> "null"])]
     ELSE [s1 EXCEPT !.sched = Append(@, [via |-> "setTimeout", err |-> "null"])]

\* The sequence without its element j.
Without(seq, j) == SubSeq(seq, 1, j - 1) \o SubSeq(seq, j + 1, Len(seq))

SendStep(s, label) ==
  /\ call' = s
  /\ act' = label
  /\ UNCHANGED <<conn, qs, mgrs, pool, msgs, lsn, broker, http>>

AmqpSendMsg ==
  /\ call.sends < MaxSends
  /\ SendStep(AmqpQueue_sendMsg(call), "AmqpSendMsg")

\* The event loop runs a scheduled callback; the broker confirms a publish
\* with ack or with nack.
AmqpSendCallback(j, nack) ==
  /\ j \in 1..Len(call.sched)
  /\ nack => call.sched[j].via = "confirm"
  /\ SendStep([call EXCEPT
                 !.sched = Without(@, j),
                 !.done = Append(@, [call.sched[j] EXCEPT
                                       !.err = IF nack THEN "nack" ELSE @])],
              "AmqpSendCallback")

\* The status of the queue changes between two calls.
AmqpSendStatus(st) ==
  /\ st # call.status
  /\ call.sends < MaxSends
  /\ SendStep([call EXCEPT !.status = st], "AmqpSendStatus")

InitSend ==
  /\ \E st \in Status, r \in BOOLEAN, rel \in BOOLEAN :
       call = NewSender(st, r, rel)
  /\ conn = NewConnection("amqp")
  /\ qs = <<>>
  /\ mgrs = <<>>
  /\ pool = NoPool
  /\ msgs = <<>>
  /\ lsn = <<>>
  /\ broker = <<>>
  /\ http = <<>>
  /\ act = "Init"

NextSend ==
  \/ AmqpSendMsg
  \/ \E j \in 1..MaxSends, nack \in BOOLEAN : AmqpSendCallback(j, nack)
  \/ \E st \in Status : AmqpSendStatus(st)

SpecSend == InitSend /\ [][NextSend]_vars

\* C34 (checked under SpecSend): sendMsg invokes no callback before it
\* returns; the callback of an unreliable publish is scheduled with
\* setTimeout and the callbacks of NotConnected and QueueIsReceiver with
\* process.nextTick, and callbacks are invoked only by the event loop.
C34_Step ==
  /\ act' = "AmqpSendMsg"
       => /\ call'.inCall = <<>>
          /\ call'.done = call.done
          /\ Len(call'.sched) = Len(call.sched) + 1
          /\ LET new == call'.sched[Len(call'.sched)]
             IN /\ call.status # Connected
                     => new = [via |-> "nextTick", err |-> "NotConnected"]
                /\ (call.status = Connected /\ call.isRecv)
                     => new = [via |-> "nextTick", err |-> "QueueIsReceiver"]
                /\ (call.status = Connected /\ ~call.isRecv /\ ~call.reliable)
                     => new = [via |-> "setTimeout", err |-> "null"]
  /\ call'.done # call.done
       => /\ act' = "AmqpSendCallback"
          /\ Len(call'.done) = Len(call.done) + 1
          /\ call'.done[Len(call'.done)].via # "call"

C34_CallbackAfterReturn == [][C34_Step]_vars

\* The callback of an unreliable publish and the callback of NotConnected
\* have both run.
C34_Witness ==
  /\ call # <<>>
  /\ call.fn = "sendMsg"
  /\ \E i, j \in 1..Len(call.done) :
       /\ call.done[i] = [via |-> "setTimeout", err |-> "null"]
       /\ call.done[j] = [via |-> "nextTick", err |-> "NotConnected"]
\* C35 (checked under SpecMgr): while a queue is Connected, its connection
\* is Connected and has a raw client, also when the queue belongs to a
\* manager that shares the pooled connection with a manager that is closed.
C35_ConnectedQueueHasConnection ==
  \A i \in 1..Len(qs) :
    qs[i].status = Connected => conn.status = Connected /\ conn.raw = "up"
(***************************************************************************)
(* A manager constructor that throws.  The constructor validates its own   *)
(* arguments, calls getConnection and then newDataQueues, which throws for *)
(* invalid options before it constructs a queue, or in the constructor of  *)
(* its first queue (the name pattern and sharedPrefix are the same for     *)
(* every queue), before a listener is bound to the connection.             *)
(***************************************************************************)
MgrNewThrows(m) ==
  /\ mgrs[m].state = "none"
  /\ pool' = getConnection(pool)
  /\ conn' = Fresh(conn)
  /\ qs' = FreshQ(qs)
  /\ mgrs' = FreshM(mgrs)
  /\ act' = "MgrNewThrows"
  /\ UNCHANGED <<msgs, rest>>

NextMgrThrow ==
  \/ MgrNew(1)
  \/ MgrNewThrows(2)
  \/ MgrClose(1)
  \/ MgrCloseNext(1)
  \/ MgrCloseAbort(1)
  \/ MgrRemoveConnection(1)
  \/ MgrClosed(1)
  \/ \E ok \in BOOLEAN : ConnDialDone(ok)
  \/ ConnRetry
  \/ ConnRawConnect
  \/ ConnRawReconnect
  \/ ConnCloseDone
  \/ \E i \in 1..Len(qs) : MgrQInnerConnectDone(i)
  \/ \E i \in 1..Len(qs) : MgrQRetry(i)
  \/ \E i \in 1..Len(qs), err \in BOOLEAN : MgrQCloseDone(i, err)

SpecMgrThrow == InitMgr /\ [][NextMgrThrow]_vars

\* C36 (checked under SpecMgrThrow): a manager constructor that throws for
\* invalid options leaves the pool as it was (no entry added, the reference
\* count unchanged), binds no queue to the pooled connection and starts no
\* connection.
C36_Step ==
  act' = "MgrNewThrows"
    => /\ pool' = pool
       /\ Len(qs') = Len(qs)
       /\ conn'.status = conn.status
       /\ conn'.dials = conn.dials
       /\ conn'.raw = conn.raw

C36_ThrowLeavesPool == [][C36_Step]_vars
\* C37 (checked under SpecQueue): while a queue is Closed nothing can call
\* its message handler: #channel is null and no channel opened by a connect
\* attempt is left open (AMQP), and the packet-handler map of the
\* connection holds no handler of the queue (MQTT).
C37_ClosedQueueIsSilent ==
  \A i \in 1..Len(qs) :
    qs[i].status = Closed
      => /\ ~qs[i].channel
         /\ ~qs[i].orphan
         /\ ~qs[i].pkt
\* C38 (checked under SpecData): an AMQP delivery is settled only on the
\* channel that delivered it: when the handler of a receiver settles a
\* delivery that is not an unsettled delivery of the channel the queue has
\* now, nothing is sent to the broker: the channels, their unsettled
\* deliveries and the queues of the broker stay as they are.
C38_Step ==
  broker.engine = "amqp"
    => \A k \in Receivers : \A d \in broker.held[k] :
         ( /\ act' \in {"Ack", "Nack"}
           /\ broker'.held[k] = broker.held[k] \ {d}
           /\ d \notin broker.unacked[k] )
         => /\ broker'.up = broker.up
            /\ broker'.unacked = broker.unacked
            /\ broker'.ready = broker.ready
            /\ broker'.tmp = broker.tmp

C38_SettledOnItsChannel == [][C38_Step]_vars
(***************************************************************************)
(* One queue on one connection, with the calls that set retry timers       *)
(* followed up to one timer more than MaxTimers.                           *)
(***************************************************************************)
TimersSeen == MaxTimers + 1

TimerStep(i, r, label) ==
  LET n == PutQueue(FreshQ(qs), FreshM(mgrs), i, r)
  IN /\ ConnBounded(conn)
     /\ \A j \in 1..Len(n.qs) :
          /\ n.qs[j].timers <= TimersSeen
          /\ Len(n.qs[j].closes) <= MaxEnds
          /\ n.qs[j].ticks <= MaxTicks
     /\ conn' = Fresh(conn)
     /\ qs' = Liveness(qs, n.qs, conn)
     /\ mgrs' = n.mgrs
     /\ act' = label
     /\ UNCHANGED <<pool, msgs, rest>>

TConnect(i) ==
  TimerStep(i, Queue_connect([FreshQ(qs)[i] EXCEPT !.closeReq = FALSE],
                             Fresh(conn)),
            "QConnect")

TClose(i, hasCb) ==
  TimerStep(i, Queue_close([FreshQ(qs)[i] EXCEPT
                              !.closeReq = TRUE,
                              !.owed = IF hasCb THEN @ + 1 ELSE @],
                           Fresh(conn), hasCb),
            "QClose")

TRetry(i) ==
  /\ qs[i].timers > 0
  /\ TimerStep(i, Queue_retry(FreshQ(qs)[i], Fresh(conn)), "QRetry")

TTick(i) ==
  /\ qs[i].ticks > 0
  /\ TimerStep(i, Queue_closeCallback(FreshQ(qs)[i]), "QTick")

NextTimers ==
  \/ ConnOwned
  \/ \E i \in 1..Len(qs) : QSetMsgHandler(i)
  \/ \E i \in 1..Len(qs) : QOnError(i)
  \/ \E i \in 1..Len(qs) : TConnect(i)
  \/ \E i \in 1..Len(qs), hasCb \in BOOLEAN : TClose(i, hasCb)
  \/ \E i \in 1..Len(qs) : TRetry(i)
  \/ \E i \in 1..Len(qs) : TTick(i)
  \/ \E i \in 1..Len(qs), ok \in BOOLEAN : QInnerConnectDone(i, ok)
  \/ \E i \in 1..Len(qs), err \in BOOLEAN : QCloseDone(i, err)
  \/ \E i \in 1..Len(qs) : QChannelClose(i)

SpecTimers == InitQueue /\ [][NextTimers]_vars

\* C39 (checked under SpecTimers): a queue has at most one retry timer
\* pending.
C39_OneRetryTimer ==
  \A i \in 1..Len(qs) : qs[i].timers <= 1
\* C40 (checked under SpecQueue): while an AmqpQueue is Connected its
\* #channel is not null, so that sendMsg on a Connected sender publishes
\* and does not throw.
C40_Step ==
  \A i \in 1..Len(qs) :
    qs'[i].engine = "amqp"
      => /\ qs'[i].status = Connected => qs'[i].channel
         /\ ( /\ act' = "QSendMsg"
              /\ qs[i].status = Connected
              /\ ~qs[i].isRecv )
              => qs'[i].sendRes = "published" /\ ~qs'[i].threw

C40_ConnectedHasChannel == [][C40_Step]_vars

\* sendMsg has published on a Connected AMQP sender while a retry timer set
\* by its connect() is still pending.
C40_Witness ==
  /\ act = "QSendMsg"
  /\ \E i \in 1..Len(qs) :
       /\ qs[i].engine = "amqp"
       /\ ~qs[i].isRecv
       /\ qs[i].sendRes = "published"
       /\ qs[i].timers > 0
====
